---- MODULE Spec2Model ----
(***************************************************************************)
(* Four-player Ludo rules engine (anushka1174/ludo-game).                  *)
(*                                                                         *)
(* The engine is purely functional: every handler takes a turn state and   *)
(* an action and returns a new turn state.  Each handler is therefore an   *)
(* operator, written branch for branch after its source, and each kind of  *)
(* dispatched action is one action of the state machine that replaces the  *)
(* turn state by processTurnAction(turnState, action).                     *)
(*                                                                         *)
(* JavaScript values are encoded as follows.                               *)
(*   null        the record  null                                          *)
(*   undefined   the record  undefined  (an absent object field)           *)
(*   {row, col}  the record  [row |-> r, col |-> c]                        *)
(*   {}          the position whose row and col are both UNDEFINED: the    *)
(*               result of { ...MAIN_TRACK[i] } for an index i that the    *)
(*               array does not have                                       *)
(*   arrays      sequences; a JavaScript index i is position i + 1         *)
(*   an array that may be null (winners)   null, or [array |-> sequence]   *)
(*   a number that may be null (currentDiceValue)   NO_DICE for null       *)
(***************************************************************************)
EXTENDS Integers, Sequences, FiniteSets, TLC

\* ------------------------------------------------------------------------
\* JavaScript null / undefined
\* ------------------------------------------------------------------------

null == [null |-> TRUE]

undefined == [undefined |-> TRUE]

\* The value of a missing numeric property: undefined === undefined holds,
\* undefined === n fails for every number n.
UNDEFINED == -1

\* currentDiceValue: null (falsy, like 0)
NO_DICE == 0

Pos(r, c) == [row |-> r, col |-> c]

\* { ...undefined }
EMPTY_OBJECT == Pos(UNDEFINED, UNDEFINED)

\* ------------------------------------------------------------------------
\* constants.js
\* ------------------------------------------------------------------------

PLAYER_ORDER == <<"RED", "GREEN", "BLUE", "YELLOW">>

SAFE_TILES ==
  << Pos(6, 1), Pos(2, 6), Pos(8, 13), Pos(12, 8),
     Pos(8, 13), Pos(12, 8), Pos(6, 1), Pos(2, 6),
     Pos(6, 2), Pos(2, 8), Pos(8, 12), Pos(12, 6) >>

HOME_ENTRY ==
  [ RED |-> Pos(6, 1), GREEN |-> Pos(1, 8),
    BLUE |-> Pos(8, 13), YELLOW |-> Pos(13, 6) ]

HOME_PATHS ==
  [ RED    |-> << Pos(6, 1), Pos(6, 2), Pos(6, 3), Pos(6, 4), Pos(6, 5), Pos(6, 6) >>,
    GREEN  |-> << Pos(1, 8), Pos(2, 8), Pos(3, 8), Pos(4, 8), Pos(5, 8), Pos(6, 8) >>,
    BLUE   |-> << Pos(8, 13), Pos(8, 12), Pos(8, 11), Pos(8, 10), Pos(8, 9), Pos(8, 8) >>,
    YELLOW |-> << Pos(13, 6), Pos(12, 6), Pos(11, 6), Pos(10, 6), Pos(9, 6), Pos(8, 6) >> ]

\* The array literal of constants.js, entry for entry (49 entries).
MAIN_TRACK ==
  << Pos(6, 1), Pos(5, 1), Pos(4, 1), Pos(3, 1), Pos(2, 1), Pos(1, 1),
     Pos(1, 2), Pos(1, 3), Pos(1, 4), Pos(1, 5), Pos(1, 6), Pos(1, 7), Pos(1, 8),
     Pos(2, 8), Pos(3, 8), Pos(4, 8), Pos(5, 8), Pos(6, 8), Pos(7, 8), Pos(8, 8),
     Pos(8, 9), Pos(8, 10), Pos(8, 11), Pos(8, 12), Pos(8, 13),
     Pos(9, 13), Pos(10, 13), Pos(11, 13), Pos(12, 13), Pos(13, 13),
     Pos(13, 12), Pos(13, 11), Pos(13, 10), Pos(13, 9), Pos(13, 8), Pos(13, 7), Pos(13, 6),
     Pos(12, 6), Pos(11, 6), Pos(10, 6), Pos(9, 6), Pos(8, 6), Pos(7, 6), Pos(6, 6),
     Pos(6, 5), Pos(6, 4), Pos(6, 3), Pos(6, 2), Pos(6, 1) >>

TOTAL_TILES == 52

HOME_PATH_LENGTH == 6

TOKENS_PER_PLAYER == 4

BOARD_SIZE == 15

DICE_MIN == 1

DICE_MAX == 6

CENTER_POSITION == Pos(7, 7)

\* ------------------------------------------------------------------------
\* Array helpers
\* ------------------------------------------------------------------------

\* arr.findIndex(pos => pos.row === p.row && pos.col === p.col): the first
\* JavaScript index holding p, or -1.
findIndex(arr, p) ==
  LET hits == { i \in 1..Len(arr) : arr[i].row = p.row /\ arr[i].col = p.col }
  IN  IF hits = {} THEN -1
      ELSE (CHOOSE i \in hits : \A j \in hits : i <= j) - 1

\* { ...arr[i] } for a JavaScript index i: a copy of the entry, or {} when
\* the array has no entry i.
SpreadAt(arr, i) ==
  IF i >= 0 /\ i < Len(arr) THEN arr[i + 1] ELSE EMPTY_OBJECT

\* arr.some(pos => pos.row === p.row && pos.col === p.col)
somePosition(arr, p) ==
  \E i \in 1..Len(arr) : arr[i].row = p.row /\ arr[i].col = p.col

\* ------------------------------------------------------------------------
\* types.js, gameState.js: construction
\* ------------------------------------------------------------------------

\* `${id}_token_${k}` of createPlayer, id = color.toLowerCase()
PLAYER_IDS == <<"red", "green", "blue", "yellow">>

TOKEN_IDS ==
  << <<"red_token_1", "red_token_2", "red_token_3", "red_token_4">>,
     <<"green_token_1", "green_token_2", "green_token_3", "green_token_4">>,
     <<"blue_token_1", "blue_token_2", "blue_token_3", "blue_token_4">>,
     <<"yellow_token_1", "yellow_token_2", "yellow_token_3", "yellow_token_4">> >>

createToken(id) ==
  [id |-> id, position |-> null, isOut |-> FALSE, isSafe |-> FALSE, isCompleted |-> FALSE]

\* The geometry fields of a player (startTile, homeEntryTile, homePath) are
\* fixed at construction and never written, so they are read from the color.
createPlayer(i) ==
  [id |-> PLAYER_IDS[i], color |-> PLAYER_ORDER[i],
   tokens |-> [k \in 1..TOKENS_PER_PLAYER |-> createToken(TOKEN_IDS[i][k])]]

\* actualStartTile of initializeGame
startTile(player) ==
  CASE player.color = "RED"    -> Pos(6, 1)
    [] player.color = "GREEN"  -> Pos(1, 8)
    [] player.color = "BLUE"   -> Pos(8, 13)
    [] player.color = "YELLOW" -> Pos(13, 6)
    [] OTHER                   -> Pos(6, 1)

homeEntryTile(player) == HOME_ENTRY[player.color]

homePath(player) == HOME_PATHS[player.color]

createGameState(players) ==
  [players |-> players, currentPlayerIndex |-> 0, winners |-> null,
   isGameOver |-> FALSE, turnCount |-> 0,
   lastDiceRoll |-> undefined, lastRollPlayerId |-> undefined, lastCapture |-> undefined]

initializeGame == createGameState([i \in 1..Len(PLAYER_ORDER) |-> createPlayer(i)])

\* ------------------------------------------------------------------------
\* token.js
\* ------------------------------------------------------------------------

\* canTokenExitBase without the test of the dice value
canTokenExitBase_AnyValue(token, diceValue) == ~token.isOut

canTokenExitBase(token, diceValue) == ~token.isOut /\ diceValue = 6

isOnSafeTile(position) ==
  IF position = null THEN FALSE ELSE somePosition(SAFE_TILES, position)

\* isOnHomePath({ position }, player)
isOnHomePath(position, player) ==
  IF position = null THEN FALSE ELSE somePosition(homePath(player), position)

isTokenCompleted(position) ==
  IF position = null THEN FALSE
  ELSE position.row = CENTER_POSITION.row /\ position.col = CENTER_POSITION.col

\* Intermediate values of a handler that it reads more than once are passed
\* on as parameters of the operator that models the rest of the handler.

\* passesHomeEntry of getNextPosition
passesHomeEntry(mainTrackIndex, homeEntryIndex, steps) ==
  IF mainTrackIndex <= homeEntryIndex
  THEN (mainTrackIndex + steps) >= homeEntryIndex
  ELSE steps >= (TOTAL_TILES - mainTrackIndex) + homeEntryIndex

\* remainingSteps of getNextPosition
remainingSteps(mainTrackIndex, homeEntryIndex, steps) ==
  IF ~passesHomeEntry(mainTrackIndex, homeEntryIndex, steps) THEN 0
  ELSE IF mainTrackIndex <= homeEntryIndex
       THEN steps - (homeEntryIndex - mainTrackIndex)
       ELSE steps - (TOTAL_TILES - mainTrackIndex) - homeEntryIndex

\* getNextPosition once the token has passed the home entry with
\* remaining steps left
enterHomePath(currentPosition, remaining, player) ==
  IF remaining > 0
  THEN IF remaining <= HOME_PATH_LENGTH
       THEN homePath(player)[remaining]
       ELSE IF remaining = HOME_PATH_LENGTH + 1
            THEN CENTER_POSITION
            ELSE currentPosition
  ELSE homeEntryTile(player)

\* The main-track branch of getNextPosition (the position was found at
\* mainTrackIndex, the home entry at homeEntryIndex).
nextOnMainTrack(currentPosition, mainTrackIndex, homeEntryIndex, steps, player) ==
  IF passesHomeEntry(mainTrackIndex, homeEntryIndex, steps)
  THEN enterHomePath(currentPosition,
                     remainingSteps(mainTrackIndex, homeEntryIndex, steps), player)
  ELSE SpreadAt(MAIN_TRACK, (mainTrackIndex + steps) % TOTAL_TILES)

\* The home-path branch of getNextPosition (the position is not on the main
\* track; homePathIndex is its index on the home path, or -1).
nextOnHomePath(currentPosition, homePathIndex, steps, player) ==
  IF homePathIndex # -1
  THEN IF homePathIndex + steps < HOME_PATH_LENGTH
       THEN homePath(player)[homePathIndex + steps + 1]
       ELSE IF homePathIndex + steps = HOME_PATH_LENGTH
            THEN CENTER_POSITION
            ELSE currentPosition
  ELSE currentPosition

\* getNextPosition for a position and positive steps, mainTrackIndex being
\* the index of the position on the main track, or -1
nextFrom(currentPosition, mainTrackIndex, steps, player) ==
  IF mainTrackIndex # -1
  THEN nextOnMainTrack(currentPosition, mainTrackIndex,
                       findIndex(MAIN_TRACK, homeEntryTile(player)), steps, player)
  ELSE nextOnHomePath(currentPosition, findIndex(homePath(player), currentPosition),
                      steps, player)

getNextPosition(currentPosition, steps, player) ==
  IF currentPosition = null \/ steps <= 0
  THEN currentPosition
  ELSE nextFrom(currentPosition, findIndex(MAIN_TRACK, currentPosition), steps, player)

\* advanceToken with isSafe read off the cell alone
advanceToken_SafeByCellOnly(token, newPosition, player) ==
  [token EXCEPT !.position = newPosition,
                !.isSafe = isOnSafeTile(newPosition)
                           \/ isOnHomePath(newPosition, player),
                !.isCompleted = isTokenCompleted(newPosition)]

\* moveToken for a token that is out: the token at newPosition
advanceToken(token, newPosition, player) ==
  [token EXCEPT !.position = newPosition,
                !.isSafe = isTokenCompleted(newPosition) \/ isOnSafeTile(newPosition)
                           \/ isOnHomePath(newPosition, player),
                !.isCompleted = isTokenCompleted(newPosition)]

moveToken(token, diceValue, player) ==
  IF ~token.isOut /\ ~canTokenExitBase(token, diceValue)
  THEN token
  ELSE IF ~token.isOut /\ canTokenExitBase(token, diceValue)
       THEN [token EXCEPT !.position = startTile(player),
                          !.isOut = TRUE,
                          !.isSafe = isOnSafeTile(startTile(player)),
                          !.isCompleted = FALSE]
       ELSE advanceToken(token, getNextPosition(token.position, diceValue, player),
                         player)

canCapture(opponentToken, newPosition) ==
  IF newPosition = null \/ opponentToken.position = null
  THEN FALSE
  ELSE IF ~opponentToken.isOut \/ opponentToken.isCompleted \/ opponentToken.isSafe
       THEN FALSE
       ELSE IF isOnSafeTile(newPosition)
            THEN FALSE
            ELSE opponentToken.position.row = newPosition.row
                 /\ opponentToken.position.col = newPosition.col

\* advanceMoves offering a move for every token that is out, completed or
\* not, whether or not the position changes
advanceMoves_AnyOutToken(token, newPosition) ==
  IF token.isOut /\ newPosition # null
  THEN << [type |-> "move", from |-> token.position, to |-> newPosition] >>
  ELSE << >>

\* The ordinary move of getValidMoves, newPosition being the next position
advanceMoves(token, newPosition) ==
  IF token.isOut /\ ~token.isCompleted
     /\ newPosition # null
     /\ (token.position = null
         \/ newPosition.row # token.position.row
         \/ newPosition.col # token.position.col)
  THEN << [type |-> "move", from |-> token.position, to |-> newPosition] >>
  ELSE << >>

\* The moves array of getValidMoves: at most an exit_base move followed by
\* an ordinary move.
getValidMoves(token, diceValue, player) ==
  (IF canTokenExitBase(token, diceValue)
   THEN << [type |-> "exit_base", from |-> null, to |-> startTile(player)] >>
   ELSE << >>)
  \o advanceMoves(token, getNextPosition(token.position, diceValue, player))

hasValidMoves(player, diceValue) ==
  \E k \in 1..Len(player.tokens) :
     Len(getValidMoves(player.tokens[k], diceValue, player)) > 0

\* ------------------------------------------------------------------------
\* token.js, the second copy in the repository (same exports, the handlers
\* take an unused fourth argument). canTokenExitBase, isOnSafeTile,
\* isTokenCompleted and canCapture read as in the first copy; the operators
\* below are the ones that differ.
\* ------------------------------------------------------------------------

\* passesHomeEntry of getNextPosition
passesHomeEntryAlt(mainTrackIndex, homeEntryIndex, steps) ==
  \/ mainTrackIndex < homeEntryIndex /\ (mainTrackIndex + steps) >= homeEntryIndex
  \/ mainTrackIndex > homeEntryIndex
       /\ (mainTrackIndex + steps) >= TOTAL_TILES + homeEntryIndex

\* remainingSteps of getNextPosition, once the home entry is passed
remainingStepsAlt(mainTrackIndex, homeEntryIndex, steps) ==
  IF mainTrackIndex < homeEntryIndex
  THEN steps - (homeEntryIndex - mainTrackIndex)
  ELSE steps - (TOTAL_TILES + homeEntryIndex - mainTrackIndex)

\* getNextPosition once the token has passed the home entry
enterHomePathAlt(remaining, player) ==
  IF remaining > 0
  THEN IF remaining <= HOME_PATH_LENGTH
       THEN homePath(player)[remaining]
       ELSE homeEntryTile(player)
  ELSE homeEntryTile(player)

\* The main-track branch of getNextPosition
nextOnMainTrackAlt(mainTrackIndex, homeEntryIndex, steps, player) ==
  IF passesHomeEntryAlt(mainTrackIndex, homeEntryIndex, steps)
  THEN enterHomePathAlt(remainingStepsAlt(mainTrackIndex, homeEntryIndex, steps),
                        player)
  ELSE SpreadAt(MAIN_TRACK, (mainTrackIndex + steps) % TOTAL_TILES)

\* The home-path branch of getNextPosition
nextOnHomePathAlt(currentPosition, homePathIndex, steps, player) ==
  IF homePathIndex # -1
  THEN IF homePathIndex + steps < HOME_PATH_LENGTH
       THEN homePath(player)[homePathIndex + steps + 1]
       ELSE IF homePathIndex + steps = HOME_PATH_LENGTH
            THEN CENTER_POSITION
            ELSE currentPosition
  ELSE currentPosition

nextFromAlt(currentPosition, mainTrackIndex, steps, player) ==
  IF mainTrackIndex # -1
  THEN nextOnMainTrackAlt(mainTrackIndex,
                          findIndex(MAIN_TRACK, homeEntryTile(player)), steps, player)
  ELSE nextOnHomePathAlt(currentPosition,
                         findIndex(homePath(player), currentPosition), steps, player)

getNextPositionAlt(currentPosition, steps, player) ==
  IF currentPosition = null \/ steps <= 0
  THEN currentPosition
  ELSE nextFromAlt(currentPosition, findIndex(MAIN_TRACK, currentPosition), steps,
                   player)

\* moveToken for a token that is out: the token at newPosition
advanceTokenAlt(token, newPosition) ==
  [token EXCEPT !.position = newPosition,
                !.isSafe = isTokenCompleted(newPosition) \/ isOnSafeTile(newPosition),
                !.isCompleted = isTokenCompleted(newPosition)]

moveTokenAlt(token, diceValue, player) ==
  IF ~token.isOut /\ ~canTokenExitBase(token, diceValue)
  THEN token
  ELSE IF ~token.isOut /\ canTokenExitBase(token, diceValue)
       THEN [token EXCEPT !.position = startTile(player),
                          !.isOut = TRUE,
                          !.isSafe = isOnSafeTile(startTile(player)),
                          !.isCompleted = FALSE]
       ELSE advanceTokenAlt(token, getNextPositionAlt(token.position, diceValue, player))

getValidMovesAlt(token, diceValue, player) ==
  (IF canTokenExitBase(token, diceValue)
   THEN << [type |-> "exit_base", from |-> null, to |-> startTile(player)] >>
   ELSE << >>)
  \o advanceMoves(token, getNextPositionAlt(token.position, diceValue, player))

\* ------------------------------------------------------------------------
\* gameState.js
\* ------------------------------------------------------------------------

\* updateTurn passing the turn without counting it
updateTurn_NotCounted(gameState) ==
  [gameState EXCEPT
     !.currentPlayerIndex = (gameState.currentPlayerIndex + 1) % Len(gameState.players)]

updateTurn(gameState) ==
  [gameState EXCEPT
     !.currentPlayerIndex = (gameState.currentPlayerIndex + 1) % Len(gameState.players),
     !.turnCount = gameState.turnCount + 1]

\* Never null here: currentPlayerIndex stays inside the players array.
getCurrentPlayer(gameState) == gameState.players[gameState.currentPlayerIndex + 1]

\* The JavaScript indexes of the players other than the current one.
getOtherPlayers(gameState) ==
  { i \in 0..(Len(gameState.players) - 1) : i # gameState.currentPlayerIndex }

updatePlayer(gameState, updatedPlayer) ==
  [gameState EXCEPT !.players[gameState.currentPlayerIndex + 1] = updatedPlayer]

updatePlayers(gameState, updatedPlayers) ==
  [gameState EXCEPT !.players = updatedPlayers]

allTokensCompleted(player) ==
  \A k \in 1..Len(player.tokens) : player.tokens[k].isCompleted

\* getWinners with some() in place of every()
getWinners_SomeCompleted(gameState) ==
  LET started(player) == \E k \in 1..Len(player.tokens) : player.tokens[k].isCompleted
      won == SelectSeq(gameState.players, started)
  IN  [i \in 1..Len(won) |-> won[i].id]

\* players.filter(all tokens completed).map(player => player.id)
getWinners(gameState) ==
  LET won == SelectSeq(gameState.players, allTokensCompleted)
  IN  [i \in 1..Len(won) |-> won[i].id]

checkAndUpdateGameEnd(gameState) ==
  LET winners == getWinners(gameState)
  IN  [gameState EXCEPT
         !.winners = IF Len(winners) > 0 THEN [array |-> winners] ELSE null,
         !.isGameOver = Len(winners) > 0]

\* ------------------------------------------------------------------------
\* dice.js
\* ------------------------------------------------------------------------

isSix(value) == value = 6

\* The value field decides every other field of the result object.
createDiceResult(value) == [value |-> value]

\* ------------------------------------------------------------------------
\* gameLogic.js
\* ------------------------------------------------------------------------

handleDiceRoll(gameState, diceValue) ==
  LET currentPlayer == getCurrentPlayer(gameState)
      updatedGameState ==
        [gameState EXCEPT !.lastDiceRoll = createDiceResult(diceValue),
                          !.lastRollPlayerId = currentPlayer.id]
  IN  IF ~hasValidMoves(currentPlayer, diceValue)
      THEN checkAndUpdateGameEnd(updateTurn(updatedGameState))
      ELSE updatedGameState

\* The capture pass resetting at most the first token it can capture.
tokensAfterCapture_FirstOnly(player, landing) ==
  [k \in 1..Len(player.tokens) |->
     IF /\ canCapture(player.tokens[k], landing)
        /\ \A j \in 1..(k - 1) : ~canCapture(player.tokens[j], landing)
     THEN [player.tokens[k] EXCEPT !.position = null, !.isOut = FALSE,
                                   !.isSafe = FALSE, !.isCompleted = FALSE]
     ELSE player.tokens[k]]

\* The capture pass resetting every token that can be captured at all,
\* whatever cell it stands on.
tokensAfterCapture_AnyCell(player, landing) ==
  [k \in 1..Len(player.tokens) |->
     IF /\ player.tokens[k].isOut
        /\ ~player.tokens[k].isCompleted
        /\ ~player.tokens[k].isSafe
     THEN [player.tokens[k] EXCEPT !.position = null, !.isOut = FALSE,
                                   !.isSafe = FALSE, !.isCompleted = FALSE]
     ELSE player.tokens[k]]

\* The capture pass of handleMove over one opponent's tokens.
tokensAfterCapture(player, landing) ==
  [k \in 1..Len(player.tokens) |->
     IF canCapture(player.tokens[k], landing)
     THEN [player.tokens[k] EXCEPT !.position = null, !.isOut = FALSE,
                                   !.isSafe = FALSE, !.isCompleted = FALSE]
     ELSE player.tokens[k]]

\* captureOccurred of handleMove
captureOccurredAt(gameState, landing) ==
  \E i \in getOtherPlayers(gameState) :
     \E k \in 1..Len(gameState.players[i + 1].tokens) :
        canCapture(gameState.players[i + 1].tokens[k], landing)

\* allUpdatedPlayers of handleMove
allUpdatedPlayers(gameState, currentPlayer, updatedCurrentPlayer, landing) ==
  [i \in 1..Len(gameState.players) |->
     IF gameState.players[i].id = currentPlayer.id
     THEN updatedCurrentPlayer
     ELSE [gameState.players[i] EXCEPT !.tokens =
             tokensAfterCapture(gameState.players[i], landing)]]

\* The end of handleMove: the turn, the temporary data, the game end.
endMove(gameState, grantsExtraTurn) ==
  checkAndUpdateGameEnd(
    IF ~grantsExtraTurn
    THEN [updateTurn(gameState) EXCEPT !.lastDiceRoll = null,
                                       !.lastRollPlayerId = null,
                                       !.lastCapture = null]
    ELSE gameState)

\* handleMove from the extra-turn decision on
decideExtraTurn(gameState, currentPlayer, updatedToken, diceValue) ==
  endMove(gameState,
          \/ isSix(diceValue)
          \/ /\ gameState.lastCapture # null
             /\ gameState.lastCapture # undefined
             /\ gameState.lastCapture.capturingPlayerId = currentPlayer.id
          \/ updatedToken.isCompleted)

\* handleMove: lastCapture is written when a capture occurred
recordCapture(gameState, captureOccurred, currentPlayer, updatedToken) ==
  IF captureOccurred
  THEN [gameState EXCEPT !.lastCapture =
          [capturingPlayerId |-> currentPlayer.id,
           capturePosition |-> updatedToken.position]]
  ELSE gameState

\* handleMove from the capture pass on, gameState holding the moved token
captureAndEnd(gameState, currentPlayer, updatedCurrentPlayer, updatedToken, diceValue) ==
  IF updatedToken.position # null /\ updatedToken.isOut /\ ~updatedToken.isCompleted
  THEN decideExtraTurn(
         recordCapture(
           updatePlayers(gameState,
                         allUpdatedPlayers(gameState, currentPlayer, updatedCurrentPlayer,
                                           updatedToken.position)),
           captureOccurredAt(gameState, updatedToken.position),
           currentPlayer, updatedToken),
         currentPlayer, updatedToken, diceValue)
  ELSE decideExtraTurn(gameState, currentPlayer, updatedToken, diceValue)

\* updatedCurrentPlayer with the moved token added to the tokens instead of
\* replacing the token moved
withToken_Added(currentPlayer, tokenId, updatedToken) ==
  [currentPlayer EXCEPT !.tokens = Append(currentPlayer.tokens, updatedToken)]

\* updatedCurrentPlayer of handleMove
withToken(currentPlayer, tokenId, updatedToken) ==
  [currentPlayer EXCEPT !.tokens =
     [k \in 1..Len(currentPlayer.tokens) |->
        IF currentPlayer.tokens[k].id = tokenId
        THEN updatedToken ELSE currentPlayer.tokens[k]]]

\* handleMove once the token has moved
placeToken(gameState, currentPlayer, updatedCurrentPlayer, updatedToken, diceValue) ==
  captureAndEnd(updatePlayer(gameState, updatedCurrentPlayer), currentPlayer,
                updatedCurrentPlayer, updatedToken, diceValue)

\* handleMove for the token found
moveFound(gameState, currentPlayer, tokenToMove, tokenId, diceValue) ==
  IF Len(getValidMoves(tokenToMove, diceValue, currentPlayer)) = 0
  THEN gameState
  ELSE placeToken(gameState, currentPlayer,
                  withToken(currentPlayer, tokenId,
                            moveToken(tokenToMove, diceValue, currentPlayer)),
                  moveToken(tokenToMove, diceValue, currentPlayer), diceValue)

\* currentPlayer.tokens.find(token => token.id === tokenId): the position of
\* the first such token, or 0
findToken(currentPlayer, tokenId) ==
  LET found == { k \in 1..Len(currentPlayer.tokens) : currentPlayer.tokens[k].id = tokenId }
  IN  IF found = {} THEN 0 ELSE CHOOSE k \in found : \A j \in found : k <= j

\* handleMove for the current player
moveOf(gameState, currentPlayer, tokenId, diceValue) ==
  IF findToken(currentPlayer, tokenId) = 0
  THEN gameState
  ELSE moveFound(gameState, currentPlayer,
                 currentPlayer.tokens[findToken(currentPlayer, tokenId)],
                 tokenId, diceValue)

handleMove(gameState, tokenId, diceValue) ==
  IF tokenId = ""
  THEN gameState
  ELSE moveOf(gameState, getCurrentPlayer(gameState), tokenId, diceValue)

\* getPossibleMoves returning every token of the current player, movable or
\* not
getPossibleMoves_AllTokens(gameState, diceValue) ==
  getCurrentPlayer(gameState).tokens

\* getPossibleMoves keeping the first movable token only
getPossibleMoves_FirstOnly(gameState, diceValue) ==
  LET currentPlayer == getCurrentPlayer(gameState)
      movable(token) == Len(getValidMoves(token, diceValue, currentPlayer)) > 0
  IN  IF SelectSeq(currentPlayer.tokens, movable) = << >>
      THEN << >>
      ELSE << Head(SelectSeq(currentPlayer.tokens, movable)) >>

getPossibleMoves(gameState, diceValue) ==
  LET currentPlayer == getCurrentPlayer(gameState)
      movable(token) == Len(getValidMoves(token, diceValue, currentPlayer)) > 0
  IN  SelectSeq(currentPlayer.tokens, movable)

\* ------------------------------------------------------------------------
\* turnManager.js
\* ------------------------------------------------------------------------

WAITING_FOR_ROLL == "WAITING_FOR_ROLL"

WAITING_FOR_MOVE == "WAITING_FOR_MOVE"

TURN_END == "TURN_END"

ROLL_DICE == "ROLL_DICE"

MAKE_MOVE == "MAKE_MOVE"

END_TURN == "END_TURN"

\* An action object: type "" stands for a missing type, value NO_DICE for a
\* missing (or zero) value, tokenId "" for a missing tokenId.
Action(type, value, tokenId) == [type |-> type, value |-> value, tokenId |-> tokenId]

getInitialTurnState(gameState) ==
  [gameState |-> gameState, phase |-> WAITING_FOR_ROLL, currentDiceValue |-> NO_DICE,
   possibleMoves |-> << >>, actionHistory |-> << >>, extraTurnGranted |-> FALSE]

\* counts[player.id], listed by player index
countPlayerTokensInPlay(gameState) ==
  [i \in 1..Len(gameState.players) |->
     Cardinality({ k \in 1..Len(gameState.players[i].tokens) :
                     gameState.players[i].tokens[k].isOut
                     /\ ~gameState.players[i].tokens[k].isCompleted })]

countCompletedTokens(gameState, playerId) ==
  LET found == { i \in 1..Len(gameState.players) : gameState.players[i].id = playerId }
  IN  IF found = {} THEN 0
      ELSE LET player == gameState.players[CHOOSE i \in found : \A j \in found : i <= j]
           IN  Cardinality({ k \in 1..Len(player.tokens) : player.tokens[k].isCompleted })

\* checkExtraTurnGranted without its capture rule
checkExtraTurnGranted_CaptureMissed(gameStateBefore, gameStateAfter, diceValue) ==
  LET currentPlayer == getCurrentPlayer(gameStateBefore)
      beforeCompleted == countCompletedTokens(gameStateBefore, currentPlayer.id)
      afterCompleted == countCompletedTokens(gameStateAfter, currentPlayer.id)
  IN  IF diceValue = 6 THEN TRUE
      ELSE IF afterCompleted > beforeCompleted THEN TRUE
      ELSE FALSE

checkExtraTurnGranted(gameStateBefore, gameStateAfter, diceValue) ==
  LET beforeTokenCounts == countPlayerTokensInPlay(gameStateBefore)
      afterTokenCounts == countPlayerTokensInPlay(gameStateAfter)
      currentPlayer == getCurrentPlayer(gameStateBefore)
      captureOccurred ==
        \E i \in 1..Len(gameStateBefore.players) :
           /\ gameStateBefore.players[i].id # currentPlayer.id
           /\ beforeTokenCounts[i] > afterTokenCounts[i]
      beforeCompleted == countCompletedTokens(gameStateBefore, currentPlayer.id)
      afterCompleted == countCompletedTokens(gameStateAfter, currentPlayer.id)
  IN  IF diceValue = 6 THEN TRUE
      ELSE IF captureOccurred THEN TRUE
      ELSE IF afterCompleted > beforeCompleted THEN TRUE
      ELSE FALSE

\* The turn state handleWaitingForRoll returns for an accepted roll
turnStateAfterRoll(newGameState, diceValue, possibleMoves, actionHistory) ==
  [gameState |-> newGameState,
   phase |-> IF Len(possibleMoves) > 0 THEN WAITING_FOR_MOVE ELSE TURN_END,
   currentDiceValue |-> diceValue, possibleMoves |-> possibleMoves,
   actionHistory |-> actionHistory, extraTurnGranted |-> FALSE]

\* handleWaitingForRoll once handleDiceRoll has returned newGameState
afterDiceRoll(newGameState, diceValue, actionHistory) ==
  turnStateAfterRoll(newGameState, diceValue,
                     getPossibleMoves(newGameState, diceValue), actionHistory)

\* handleWaitingForRoll with the dice value chosen
rollWith(turnState, diceValue, actionHistory) ==
  afterDiceRoll(handleDiceRoll(turnState.gameState, diceValue), diceValue, actionHistory)

\* handleWaitingForRoll sampling rollDice() whatever the action carries
handleWaitingForRoll_AlwaysSampled(turnState, action, actionHistory, rolled) ==
  IF action.type # ROLL_DICE
  THEN [turnState EXCEPT !.actionHistory = actionHistory]
  ELSE rollWith(turnState, rolled, actionHistory)

\* rolled is the value rollDice() returns when the action carries none.
handleWaitingForRoll(turnState, action, actionHistory, rolled) ==
  IF action.type # ROLL_DICE
  THEN [turnState EXCEPT !.actionHistory = actionHistory]
  ELSE rollWith(turnState, IF action.value # NO_DICE THEN action.value ELSE rolled,
                actionHistory)

\* The turn state handleWaitingForMove returns for an accepted move
\* The turn state after a move going to TURN_END whether or not the extra
\* turn was granted
turnStateAfterMove_AlwaysTurnEnd(turnState, newGameState, extraTurnGranted, actionHistory) ==
  [gameState |-> newGameState,
   phase |-> TURN_END,
   currentDiceValue |->
     IF extraTurnGranted THEN NO_DICE ELSE turnState.currentDiceValue,
   possibleMoves |-> << >>, actionHistory |-> actionHistory,
   extraTurnGranted |-> extraTurnGranted]

turnStateAfterMove(turnState, newGameState, extraTurnGranted, actionHistory) ==
  [gameState |-> newGameState,
   phase |-> IF extraTurnGranted THEN WAITING_FOR_ROLL ELSE TURN_END,
   currentDiceValue |->
     IF extraTurnGranted THEN NO_DICE ELSE turnState.currentDiceValue,
   possibleMoves |-> << >>, actionHistory |-> actionHistory,
   extraTurnGranted |-> extraTurnGranted]

\* handleWaitingForMove once handleMove has returned newGameState
afterMove(turnState, newGameState, actionHistory) ==
  turnStateAfterMove(turnState, newGameState,
                     checkExtraTurnGranted(turnState.gameState, newGameState,
                                           turnState.currentDiceValue),
                     actionHistory)

\* handleWaitingForMove without the check that the token is among
\* possibleMoves
handleWaitingForMove_AnyToken(turnState, action, actionHistory) ==
  IF action.type # MAKE_MOVE
  THEN [turnState EXCEPT !.actionHistory = actionHistory]
  ELSE IF action.tokenId = "" \/ turnState.currentDiceValue = NO_DICE
  THEN [turnState EXCEPT !.actionHistory = actionHistory]
  ELSE afterMove(turnState,
                 handleMove(turnState.gameState, action.tokenId,
                            turnState.currentDiceValue),
                 actionHistory)

handleWaitingForMove(turnState, action, actionHistory) ==
  IF action.type # MAKE_MOVE
  THEN [turnState EXCEPT !.actionHistory = actionHistory]
  ELSE IF action.tokenId = "" \/ turnState.currentDiceValue = NO_DICE
  THEN [turnState EXCEPT !.actionHistory = actionHistory]
  ELSE IF ~(\E k \in 1..Len(turnState.possibleMoves) :
              turnState.possibleMoves[k].id = action.tokenId)
  THEN [turnState EXCEPT !.actionHistory = actionHistory]
  ELSE afterMove(turnState,
                 handleMove(turnState.gameState, action.tokenId,
                            turnState.currentDiceValue),
                 actionHistory)

\* handleTurnEnd leaving the phase as it is
handleTurnEnd_PhaseKept(turnState, action, actionHistory) ==
  [gameState |-> IF turnState.extraTurnGranted
                 THEN turnState.gameState
                 ELSE updateTurn(turnState.gameState),
   phase |-> turnState.phase,
   currentDiceValue |-> NO_DICE, possibleMoves |-> << >>,
   actionHistory |-> IF turnState.extraTurnGranted THEN actionHistory ELSE << >>,
   extraTurnGranted |-> FALSE]

handleTurnEnd(turnState, action, actionHistory) ==
  LET newGameState ==
        IF turnState.extraTurnGranted
        THEN turnState.gameState
        ELSE updateTurn(turnState.gameState)
  IN  [gameState |-> newGameState, phase |-> WAITING_FOR_ROLL,
       currentDiceValue |-> NO_DICE, possibleMoves |-> << >>,
       actionHistory |-> IF turnState.extraTurnGranted THEN actionHistory ELSE << >>,
       extraTurnGranted |-> FALSE]

\* processTurnAction validating the action object only, not its type
processTurnAction_TypeUnchecked(turnState, action, rolled) ==
  IF action = null
  THEN turnState
  ELSE LET newActionHistory == Append(turnState.actionHistory, action.type)
       IN  CASE turnState.phase = WAITING_FOR_ROLL ->
                  handleWaitingForRoll(turnState, action, newActionHistory, rolled)
             [] turnState.phase = WAITING_FOR_MOVE ->
                  handleWaitingForMove(turnState, action, newActionHistory)
             [] turnState.phase = TURN_END ->
                  handleTurnEnd(turnState, action, newActionHistory)
             [] OTHER -> turnState

\* actionHistory holds the dispatched action objects; no handler reads them
\* back, and each is recorded here by its type.
processTurnAction(turnState, action, rolled) ==
  IF action = null \/ action.type = ""
  THEN turnState
  ELSE LET newActionHistory == Append(turnState.actionHistory, action.type)
       IN  CASE turnState.phase = WAITING_FOR_ROLL ->
                  handleWaitingForRoll(turnState, action, newActionHistory, rolled)
             [] turnState.phase = WAITING_FOR_MOVE ->
                  handleWaitingForMove(turnState, action, newActionHistory)
             [] turnState.phase = TURN_END ->
                  handleTurnEnd(turnState, action, newActionHistory)
             [] OTHER -> turnState

\* ------------------------------------------------------------------------
\* The engine as a state machine
\* ------------------------------------------------------------------------

\* turnState: the TurnState value the caller holds (App.jsx, index.js).
\* seen:      an observer's notes, read by no handler (see Init).
VARIABLES turnState, seen

vars == <<turnState, seen>>

\* Bounds of the exploration: the number of dispatched actions of a run with
\* free inputs, the turn count up to which actions are dispatched, and the
\* number of dispatched actions of a run driven as index.js drives it.
MaxSteps == 6

MaxTurnCount == 2

MaxScriptSteps == 42

\* The largest value a ROLL_DICE action carries in the runs that go beyond
\* the values of a die.
MaxDiceInput == 7

\* The turn count up to which actions are dispatched in the driver's runs
\* over several turns.
MaxTurns == 4

DiceValues == DICE_MIN..DICE_MAX

ActionTypes == {ROLL_DICE, MAKE_MOVE, END_TURN}

TokenIds == { TOKEN_IDS[i][k] : i \in 1..Len(PLAYER_ORDER), k \in 1..TOKENS_PER_PLAYER }

\* tokenId inputs: every token of the game, or none
TokenIdInputs == TokenIds \cup {""}

possibleIds(ts) == { ts.possibleMoves[k].id : k \in 1..Len(ts.possibleMoves) }

\* An action the current phase accepts (turnManager.js, isActionAllowed
\* apart from its TURN_END case: handleTurnEnd accepts every type).
Legal(ts, action) ==
  CASE ts.phase = WAITING_FOR_ROLL -> action.type = ROLL_DICE
    [] ts.phase = WAITING_FOR_MOVE ->
         action.type = MAKE_MOVE /\ action.tokenId \in possibleIds(ts)
    [] ts.phase = TURN_END -> TRUE
    [] OTHER -> FALSE

\* turnManager.js, isActionAllowed
isActionAllowed(ts, action) ==
  IF action = null \/ action.type = ""
  THEN FALSE
  ELSE CASE ts.phase = WAITING_FOR_ROLL -> action.type = ROLL_DICE
         [] ts.phase = WAITING_FOR_MOVE ->
              IF action.type = MAKE_MOVE
              THEN action.tokenId # "" /\ action.tokenId \in possibleIds(ts)
              ELSE FALSE
         [] ts.phase = TURN_END -> action.type = END_TURN
         [] OTHER -> FALSE

WithinBounds ==
  /\ turnState.gameState.turnCount < MaxTurnCount
  /\ seen.steps < MaxSteps

WithinScriptBounds ==
  /\ turnState.gameState.turnCount < MaxTurnCount
  /\ seen.steps < MaxScriptSteps

\* seen observes the run and is read by no handler: the number of
\* well-formed actions dispatched, the player index, the turn count and the
\* dice value of the last accepted roll, the kind of the last well-formed
\* dispatch, and whether the last dispatch was a malformed action.
Init ==
  /\ turnState = getInitialTurnState(initializeGame)
  /\ seen = [steps |-> 0, roller |-> 0, rollCount |-> 0, dice |-> NO_DICE,
             last |-> "init", malformed |-> FALSE]

\* One dispatch of processTurnAction: the caller replaces its turn state by
\* the returned one.
Dispatch(action, rolled) == turnState' = processTurnAction(turnState, action, rolled)

SeenRoll(v) ==
  seen' = [seen EXCEPT !.steps = seen.steps + 1,
                       !.roller = turnState.gameState.currentPlayerIndex,
                       !.rollCount = turnState.gameState.turnCount,
                       !.dice = v,
                       !.last = "roll",
                       !.malformed = FALSE]

SeenMove ==
  seen' = [seen EXCEPT !.steps = seen.steps + 1, !.last = "move",
                       !.malformed = FALSE]

SeenEndTurn ==
  seen' = [seen EXCEPT !.steps = seen.steps + 1,
                       !.last = IF seen.last = "move" THEN "end_after_move"
                                ELSE "end_after_roll",
                       !.malformed = FALSE]

\* ROLL_DICE { value } in WAITING_FOR_ROLL
Roll ==
  /\ WithinBounds
  /\ turnState.phase = WAITING_FOR_ROLL
  /\ \E v \in DiceValues :
       Dispatch(Action(ROLL_DICE, v, ""), v) /\ SeenRoll(v)

\* ROLL_DICE {} in WAITING_FOR_ROLL: the engine samples rollDice()
RollSampled ==
  /\ WithinBounds
  /\ turnState.phase = WAITING_FOR_ROLL
  /\ \E v \in DiceValues :
       Dispatch(Action(ROLL_DICE, NO_DICE, ""), v) /\ SeenRoll(v)

\* MAKE_MOVE { tokenId } in WAITING_FOR_MOVE, tokenId among possibleMoves
Move ==
  /\ WithinBounds
  /\ turnState.phase = WAITING_FOR_MOVE
  /\ \E t \in possibleIds(turnState) : Dispatch(Action(MAKE_MOVE, NO_DICE, t), NO_DICE)
  /\ SeenMove

\* any well-formed action in TURN_END
EndTurn ==
  /\ WithinBounds
  /\ turnState.phase = TURN_END
  /\ \E type \in ActionTypes : Dispatch(Action(type, NO_DICE, ""), NO_DICE)
  /\ SeenEndTurn

\* The well-formed actions offered to a phase that may not accept them.
IgnoredInputs ==
  { Action(ROLL_DICE, v, "") : v \in DiceValues }
  \cup { Action(MAKE_MOVE, NO_DICE, t) : t \in TokenIdInputs }
  \cup { Action(END_TURN, NO_DICE, "") }

\* a well-formed action the current phase does not accept
Ignored ==
  /\ WithinBounds
  /\ \E action \in IgnoredInputs :
       /\ ~Legal(turnState, action)
       /\ Dispatch(action, DICE_MIN)
  /\ seen' = [seen EXCEPT !.steps = seen.steps + 1, !.last = "ignored",
                          !.malformed = FALSE]

MalformedInputs == {null, Action("", NO_DICE, ""), Action("", 6, "red_token_1")}

\* no action object, or an action object without a type
Malformed ==
  /\ \E action \in MalformedInputs : Dispatch(action, DICE_MIN)
  /\ seen' = [seen EXCEPT !.malformed = TRUE]

Next == Roll \/ RollSampled \/ Move \/ EndTurn \/ Ignored \/ Malformed

Spec == Init /\ [][Next]_vars

\* index.js, runLudoSimulation: the driver dispatches ROLL_DICE with a value
\* of its own, ...
ScriptRoll ==
  /\ WithinScriptBounds
  /\ turnState.phase = WAITING_FOR_ROLL
  /\ \E v \in DiceValues :
       Dispatch(Action(ROLL_DICE, v, ""), v) /\ SeenRoll(v)

\* ... moves possibleMoves[0] when there is one, ...
ScriptMove ==
  /\ WithinScriptBounds
  /\ turnState.phase = WAITING_FOR_MOVE
  /\ Len(turnState.possibleMoves) > 0
  /\ Dispatch(Action(MAKE_MOVE, NO_DICE, turnState.possibleMoves[1].id), NO_DICE)
  /\ SeenMove

\* ... and in TURN_END dispatches the next ROLL_DICE all the same.
ScriptEndTurn ==
  /\ WithinScriptBounds
  /\ turnState.phase = TURN_END
  /\ \E v \in DiceValues : Dispatch(Action(ROLL_DICE, v, ""), v)
  /\ SeenEndTurn

ScriptNext == ScriptRoll \/ ScriptMove \/ ScriptEndTurn

\* The runs of the driver of index.js.
SpecScript == Init /\ [][ScriptNext]_vars

\* turnManager.js, handleWaitingForRoll takes action.value as it comes: the
\* driver's rolls with values up to MaxDiceInput, beyond DICE_MAX.
InputValues == DICE_MIN..MaxDiceInput

UncheckedRoll ==
  /\ WithinScriptBounds
  /\ turnState.phase = WAITING_FOR_ROLL
  /\ \E v \in InputValues :
       Dispatch(Action(ROLL_DICE, v, ""), v) /\ SeenRoll(v)

UncheckedNext == UncheckedRoll \/ ScriptMove \/ ScriptEndTurn

SpecUnchecked == Init /\ [][UncheckedNext]_vars

\* The runs of the driver of index.js over several turns: the same actions,
\* dispatched up to turn count MaxTurns.
WithinTurnsBounds ==
  /\ turnState.gameState.turnCount < MaxTurns
  /\ seen.steps < MaxScriptSteps

TurnsRoll ==
  /\ WithinTurnsBounds
  /\ turnState.phase = WAITING_FOR_ROLL
  /\ \E v \in DiceValues :
       Dispatch(Action(ROLL_DICE, v, ""), v) /\ SeenRoll(v)

TurnsMove ==
  /\ WithinTurnsBounds
  /\ turnState.phase = WAITING_FOR_MOVE
  /\ Len(turnState.possibleMoves) > 0
  /\ Dispatch(Action(MAKE_MOVE, NO_DICE, turnState.possibleMoves[1].id), NO_DICE)
  /\ SeenMove

TurnsEndTurn ==
  /\ WithinTurnsBounds
  /\ turnState.phase = TURN_END
  /\ \E v \in DiceValues : Dispatch(Action(ROLL_DICE, v, ""), v)
  /\ SeenEndTurn

TurnsNext == TurnsRoll \/ TurnsMove \/ TurnsEndTurn

SpecTurns == Init /\ [][TurnsNext]_vars

\* The runs of the driver of index.js without end: rolls, moves of
\* possibleMoves[0] and turn ends are dispatched for ever. turnCount is a
\* JavaScript number, and from 2^53 on turnCount + 1 is turnCount again
\* (gameState.js, updateTurn): MaxExactTurnCount stands for that count.
MaxExactTurnCount == 4

\* The number of actions at the start of a run during which a 6 may be
\* rolled; later rolls are 1..5.
MaxOpeningSteps == 4

exactTurnCount(ts) ==
  IF ts.gameState.turnCount > MaxExactTurnCount
  THEN [ts EXCEPT !.gameState.turnCount = MaxExactTurnCount]
  ELSE ts

LongDispatch(action, rolled) ==
  turnState' = exactTurnCount(processTurnAction(turnState, action, rolled))

LongSeen(last, roller, v) ==
  seen' = [seen EXCEPT !.steps = IF seen.steps < MaxOpeningSteps
                                 THEN seen.steps + 1 ELSE seen.steps,
                       !.roller = roller,
                       !.dice = v,
                       !.last = last]

LongValues ==
  IF seen.steps < MaxOpeningSteps THEN DiceValues ELSE DiceValues \ {DICE_MAX}

LongRoll ==
  /\ turnState.phase = WAITING_FOR_ROLL
  /\ \E v \in LongValues :
       /\ LongDispatch(Action(ROLL_DICE, v, ""), v)
       /\ LongSeen("roll", turnState.gameState.currentPlayerIndex, v)

LongMove ==
  /\ turnState.phase = WAITING_FOR_MOVE
  /\ Len(turnState.possibleMoves) > 0
  /\ LongDispatch(Action(MAKE_MOVE, NO_DICE, turnState.possibleMoves[1].id), NO_DICE)
  /\ LongSeen("move", seen.roller, seen.dice)

LongEndTurn ==
  /\ turnState.phase = TURN_END
  /\ LongDispatch(Action(ROLL_DICE, DICE_MIN, ""), DICE_MIN)
  /\ LongSeen("end", seen.roller, seen.dice)

LongNext == LongRoll \/ LongMove \/ LongEndTurn

\* One more action has been dispatched: the observer records another kind of
\* action than the last one (a roll is never followed by a roll, a move by a
\* move, or a turn end by a turn end).
Dispatched ==
  \E last \in {"roll", "move", "end"} \ {seen.last} :
    \E roller \in 0..(Len(PLAYER_ORDER) - 1) : \E v \in NO_DICE..DICE_MAX :
      \E steps \in 0..MaxOpeningSteps :
        seen' = [seen EXCEPT !.steps = steps, !.roller = roller, !.dice = v,
                             !.last = last]

\* The driver keeps dispatching: there is always a next action, and actions
\* are dispatched again and again.
SpecLong == Init /\ [][LongNext]_vars /\ WF_seen(Dispatched)

\* ------------------------------------------------------------------
\* Properties
\* ------------------------------------------------------------------

\* C1: once a roll and a move that earns no extra turn have been followed by
\* one action in TURN_END, the state waits for a roll of player (p + 1) mod 4
\* with turn count n + 1, p and n being the active player and the turn count
\* at the roll: the turn has advanced once, not twice.
C1_TurnAdvancesOnceAfterMove ==
  seen.last = "end_after_move" =>
    /\ turnState.phase = WAITING_FOR_ROLL
    /\ turnState.gameState.currentPlayerIndex = (seen.roller + 1) % Len(PLAYER_ORDER)
    /\ turnState.gameState.turnCount = seen.rollCount + 1

\* A move without extra turn has been followed by an action in TURN_END.
C1_EndedAfterMove ==
  /\ seen.last = "end_after_move"
  /\ turnState.phase = WAITING_FOR_ROLL

\* C2: once a roll that leaves the roller no legal move has been followed by
\* one action in TURN_END, the state waits for a roll of player (p + 1) mod 4
\* with turn count n + 1.
C2_TurnAdvancesOnceAfterRoll ==
  seen.last = "end_after_roll" =>
    /\ turnState.phase = WAITING_FOR_ROLL
    /\ turnState.gameState.currentPlayerIndex = (seen.roller + 1) % Len(PLAYER_ORDER)
    /\ turnState.gameState.turnCount = seen.rollCount + 1

\* A roll without legal move has been followed by an action in TURN_END.
C2_EndedAfterRoll ==
  /\ seen.last = "end_after_roll"
  /\ turnState.phase = WAITING_FOR_ROLL

\* The tokens of the player who rolled that have a valid move with the value
\* rolled (a roll changes no token).
rollersMovableTokens ==
  LET roller == turnState.gameState.players[seen.roller + 1]
      movable(token) == Len(getValidMoves(token, seen.dice, roller)) > 0
  IN SelectSeq(roller.tokens, movable)

\* C3: after ROLL_DICE in WAITING_FOR_ROLL, possibleMoves is exactly the
\* roller's tokens that have a valid move with the value rolled (so never a
\* token of another player), and the phase is WAITING_FOR_MOVE when there is
\* one and TURN_END, with possibleMoves empty, when there is none.
C3_PossibleMovesAreTheRollers ==
  seen.last = "roll" =>
    /\ turnState.possibleMoves = rollersMovableTokens
    /\ turnState.phase = IF rollersMovableTokens # << >> THEN WAITING_FOR_MOVE
                         ELSE TURN_END

\* A roll has left the roller without legal move.
C3_RollerCannotMove ==
  /\ seen.last = "roll"
  /\ rollersMovableTokens = << >>
  /\ seen.dice = 6

\* The step is an accepted MAKE_MOVE.
MoveStep == seen'.last = "move" /\ seen'.steps = seen.steps + 1

\* The step sends a token of a player other than the mover back to base.
opponentTokenReset ==
  \E i \in 1..Len(turnState.gameState.players) :
    /\ i # turnState.gameState.currentPlayerIndex + 1
    /\ \E k \in 1..TOKENS_PER_PLAYER :
         /\ turnState.gameState.players[i].tokens[k].isOut
         /\ ~turnState'.gameState.players[i].tokens[k].isOut
         /\ turnState'.gameState.players[i].tokens[k].position = null

\* The step completes a token of the mover.
moverTokenCompleted ==
  LET i == turnState.gameState.currentPlayerIndex + 1
  IN  \E k \in 1..TOKENS_PER_PLAYER :
        /\ ~turnState.gameState.players[i].tokens[k].isCompleted
        /\ turnState'.gameState.players[i].tokens[k].isCompleted

\* C4: after every accepted MAKE_MOVE, extraTurnGranted is true iff the dice
\* value used was 6, or the move sent an opponent token back to base, or it
\* completed the moved token; when true the phase is WAITING_FOR_ROLL with
\* the same active player, when false the phase is TURN_END.
C4_ExtraTurnLaw ==
  [][MoveStep =>
       /\ turnState'.extraTurnGranted
            <=> (turnState.currentDiceValue = 6 \/ opponentTokenReset
                 \/ moverTokenCompleted)
       /\ turnState'.extraTurnGranted =>
            /\ turnState'.phase = WAITING_FOR_ROLL
            /\ turnState'.gameState.currentPlayerIndex
                 = turnState.gameState.currentPlayerIndex
       /\ ~turnState'.extraTurnGranted => turnState'.phase = TURN_END]_vars

\* A move with a value other than 6 has captured and earned the extra turn.
C4_CaptureEarnedExtraTurn ==
  /\ seen.last = "move"
  /\ seen.dice # 6
  /\ turnState.extraTurnGranted
  /\ turnState.phase = WAITING_FOR_ROLL
  /\ \A i \in 1..Len(turnState.gameState.players) :
       \A k \in 1..TOKENS_PER_PLAYER :
         ~turnState.gameState.players[i].tokens[k].isCompleted

\* The step dispatches a well-formed action the phase does not accept.
IgnoredStep == seen'.last = "ignored" /\ seen'.steps = seen.steps + 1

\* C5: a well-formed action that is illegal in the current phase returns a
\* turn state equal to its input in every field, actionHistory included.
C5_IllegalActionReturnsEqualState ==
  [][IgnoredStep => turnState' = turnState]_vars

\* C6: a well-formed action that is illegal in the current phase leaves the
\* gameState (tokens, currentPlayerIndex, turnCount, winners, isGameOver),
\* the phase, currentDiceValue, possibleMoves and extraTurnGranted unchanged.
C6_IllegalActionKeepsRuleState ==
  [][IgnoredStep =>
       /\ turnState'.gameState = turnState.gameState
       /\ turnState'.phase = turnState.phase
       /\ turnState'.currentDiceValue = turnState.currentDiceValue
       /\ turnState'.possibleMoves = turnState.possibleMoves
       /\ turnState'.extraTurnGranted = turnState.extraTurnGranted]_vars

\* An action was ignored while a move was awaited.
C6_IgnoredWhileWaitingForMove ==
  /\ seen.last = "ignored"
  /\ turnState.phase = WAITING_FOR_MOVE
  /\ Len(turnState.possibleMoves) > 0
  /\ turnState.currentDiceValue # NO_DICE

\* The step dispatches a malformed action.
MalformedStep == seen'.malformed /\ seen'.steps = seen.steps

\* C7: a malformed action (no action, or an action without type), in any
\* phase, TURN_END included, returns the turn state unchanged in every field.
C7_MalformedActionReturnsInput ==
  [][MalformedStep => turnState' = turnState]_vars

\* A malformed action has just been dispatched in TURN_END.
C7_MalformedInTurnEnd ==
  /\ seen.malformed
  /\ turnState.phase = TURN_END

\* The JavaScript indexes + 1 of the players all of whose 4 tokens are
\* completed.
playersDone ==
  { i \in 1..Len(turnState.gameState.players) :
      /\ Len(turnState.gameState.players[i].tokens) = TOKENS_PER_PLAYER
      /\ \A k \in 1..TOKENS_PER_PLAYER :
           turnState.gameState.players[i].tokens[k].isCompleted }

\* C8: isGameOver is true iff winners is non-null iff some player has all 4
\* tokens completed, and a non-null winners holds exactly the ids of the
\* players all of whose tokens are completed.
C8_GameOverIffWinners ==
  /\ turnState.gameState.isGameOver <=> turnState.gameState.winners # null
  /\ turnState.gameState.isGameOver <=> playersDone # {}
  /\ turnState.gameState.winners # null =>
       /\ { turnState.gameState.winners.array[k] :
              k \in 1..Len(turnState.gameState.winners.array) }
            = { turnState.gameState.players[i].id : i \in playersDone }
       /\ Len(turnState.gameState.winners.array) = Cardinality(playersDone)

\* A player has completed all 4 tokens and the game is over.
C8_GameWon ==
  /\ turnState.gameState.isGameOver
  /\ turnState.gameState.winners = [array |-> << "red" >>]
  /\ playersDone = {1}

\* The positions a token can hold: the ring cells, the home-lane cells and
\* the value of a ring entry that does not exist.
BoardCells ==
  { MAIN_TRACK[i] : i \in 1..Len(MAIN_TRACK) }
  \cup UNION { { homePath(createPlayer(p))[i] : i \in 1..HOME_PATH_LENGTH } :
               p \in 1..Len(PLAYER_ORDER) }
  \cup { startTile(createPlayer(p)) : p \in 1..Len(PLAYER_ORDER) }
  \cup { EMPTY_OBJECT }

\* C9: with dice values 1..6 a token can be completed: some token is
\* completed, or some move of some player's token from a cell it can hold
\* lands on the center cell.
C9_CompletionStepExists ==
  \/ \E i \in 1..Len(turnState.gameState.players) :
       \E k \in 1..TOKENS_PER_PLAYER :
         turnState.gameState.players[i].tokens[k].isCompleted
  \/ \E p \in 1..Len(PLAYER_ORDER) : \E cell \in BoardCells : \E steps \in DiceValues :
       getNextPosition(cell, steps, createPlayer(p)) = CENTER_POSITION

\* No token is completed.
NoTokenCompleted ==
  \A i \in 1..Len(turnState.gameState.players) :
    \A k \in 1..TOKENS_PER_PLAYER :
      ~turnState.gameState.players[i].tokens[k].isCompleted

\* C10: every token that is out has a position with row and col in 0..14
\* that is a ring cell, a cell of its owner's home lane, or the center cell.
C10_OutTokensOnTheBoard ==
  \A i \in 1..Len(turnState.gameState.players) :
    \A k \in 1..TOKENS_PER_PLAYER :
      LET player == turnState.gameState.players[i]
          token == player.tokens[k]
      IN  token.isOut =>
            /\ token.position # null
            /\ token.position.row \in 0..(BOARD_SIZE - 1)
            /\ token.position.col \in 0..(BOARD_SIZE - 1)
            /\ \/ somePosition(MAIN_TRACK, token.position)
               \/ somePosition(homePath(player), token.position)
               \/ token.position = CENTER_POSITION

\* A ring advance (currentIndex + steps) mod 52, from a ring index and with a
\* step count 1..6, that yields no cell.
RingAdvanceUndefined ==
  \E currentIndex \in 0..(Len(MAIN_TRACK) - 1) : \E steps \in DiceValues :
    SpreadAt(MAIN_TRACK, (currentIndex + steps) % TOTAL_TILES) = EMPTY_OBJECT

\* C11: for every token of every player, position is null iff isOut is
\* false, and isCompleted implies isOut and isSafe.
C11_TokenFlags ==
  \A i \in 1..Len(turnState.gameState.players) :
    \A k \in 1..Len(turnState.gameState.players[i].tokens) :
      /\ turnState.gameState.players[i].tokens[k].position = null
           <=> ~turnState.gameState.players[i].tokens[k].isOut
      /\ turnState.gameState.players[i].tokens[k].isCompleted =>
           /\ turnState.gameState.players[i].tokens[k].isOut
           /\ turnState.gameState.players[i].tokens[k].isSafe

\* One token is completed, another is out on the board and a third is in
\* base.
C11_CompletedOutAndInBase ==
  \E i, j, l \in 1..Len(turnState.gameState.players) :
    \E k, m, n \in 1..TOKENS_PER_PLAYER :
      /\ turnState.gameState.players[i].tokens[k].isCompleted
      /\ turnState.gameState.players[j].tokens[m].isOut
      /\ ~turnState.gameState.players[j].tokens[m].isCompleted
      /\ ~turnState.gameState.players[l].tokens[n].isOut

\* The token stands on the cell (row and col compared as the code compares
\* them).
onCell(token, cell) ==
  /\ token.position # null
  /\ token.position.row = cell.row
  /\ token.position.col = cell.col

\* The token as the capture pass leaves a captured token.
resetToBase(token) ==
  [token EXCEPT !.position = null, !.isOut = FALSE, !.isSafe = FALSE,
                !.isCompleted = FALSE]

\* The step has resolved the captures on the landing cell of the mover (the
\* player at mover in players): every opponent token that stood there out,
\* not completed and not safe is back in base, and an opponent token that
\* stands there afterwards was safe or completed, or the cell is a safe cell.
capturesResolved(mover, landing) ==
  \A i \in 1..Len(turnState.gameState.players) : \A j \in 1..TOKENS_PER_PLAYER :
    i # mover =>
      /\ ( /\ turnState.gameState.players[i].tokens[j].isOut
           /\ ~turnState.gameState.players[i].tokens[j].isCompleted
           /\ ~turnState.gameState.players[i].tokens[j].isSafe
           /\ onCell(turnState.gameState.players[i].tokens[j], landing) )
         => turnState'.gameState.players[i].tokens[j]
              = resetToBase(turnState.gameState.players[i].tokens[j])
      /\ onCell(turnState'.gameState.players[i].tokens[j], landing)
         => \/ turnState.gameState.players[i].tokens[j].isSafe
            \/ turnState.gameState.players[i].tokens[j].isCompleted
            \/ isOnSafeTile(landing)

ringCells == { MAIN_TRACK[i] : i \in 1..Len(MAIN_TRACK) }

homeLaneCells(color) == { HOME_PATHS[color][i] : i \in 1..Len(HOME_PATHS[color]) }

\* No home-lane cell is a ring cell or a home-lane cell of another color.
homeLanesApart ==
  \A p \in 1..Len(PLAYER_ORDER) :
    /\ homeLaneCells(PLAYER_ORDER[p]) \cap ringCells = {}
    /\ \A q \in 1..Len(PLAYER_ORDER) :
         q # p => homeLaneCells(PLAYER_ORDER[p]) \cap homeLaneCells(PLAYER_ORDER[q]) = {}

\* The step sends back to base a token that stood on a cell of its owner's
\* home lane.
homeLaneTokenReset ==
  \E i \in 1..Len(turnState.gameState.players) : \E k \in 1..TOKENS_PER_PLAYER :
    /\ turnState.gameState.players[i].tokens[k].isOut
    /\ isOnHomePath(turnState.gameState.players[i].tokens[k].position,
                    turnState.gameState.players[i])
    /\ ~turnState'.gameState.players[i].tokens[k].isOut

\* C13: no home-lane cell of a color is a cell of the shared ring or a
\* home-lane cell of another color, and in no step is a token that stands on
\* a cell of its own home lane sent back to base.
C13_HomeLaneImmunity ==
  [][homeLanesApart /\ ~homeLaneTokenReset]_vars

\* YELLOW has just captured on GREEN's start cell, the first cell of GREEN's
\* home lane, and GREEN's token is back in base.
C13_CapturedOnOwnHomeLane ==
  /\ seen.last = "move"
  /\ seen.roller = 3
  /\ turnState.gameState.lastCapture # null
  /\ turnState.gameState.lastCapture # undefined
  /\ turnState.gameState.lastCapture.capturingPlayerId = "yellow"
  /\ turnState.gameState.lastCapture.capturePosition = HOME_PATHS["GREEN"][1]
  /\ \A k \in 1..TOKENS_PER_PLAYER :
       ~turnState.gameState.players[2].tokens[k].isOut

\* C14: for every one of the four players, startTile and homeEntryTile are
\* safe cells, and every token that stands on its owner's start cell has
\* isSafe = true.
C14_StartCellsSafe ==
  \A i \in 1..Len(turnState.gameState.players) :
    /\ isOnSafeTile(startTile(turnState.gameState.players[i]))
    /\ isOnSafeTile(homeEntryTile(turnState.gameState.players[i]))
    /\ \A k \in 1..TOKENS_PER_PLAYER :
         onCell(turnState.gameState.players[i].tokens[k],
                startTile(turnState.gameState.players[i]))
           => turnState.gameState.players[i].tokens[k].isSafe

\* A token of GREEN has just left base: it stands on GREEN's start cell, out,
\* with isSafe = false.
C14_UnsafeOnStartCell ==
  /\ seen.last = "move"
  /\ seen.dice = 6
  /\ \E k \in 1..TOKENS_PER_PLAYER :
       /\ onCell(turnState.gameState.players[2].tokens[k],
                 startTile(turnState.gameState.players[2]))
       /\ turnState.gameState.players[2].tokens[k].isOut
       /\ ~turnState.gameState.players[2].tokens[k].isSafe

\* The token in base passes the exit gate: it has a valid move with a dice
\* value 1..6 iff the value is 6, and moveToken with a 6 places it on its
\* owner's start cell, out and not completed.
exitGate(token, player) ==
  /\ \A d \in DiceValues : Len(getValidMoves(token, d, player)) > 0 <=> d = 6
  /\ moveToken(token, 6, player).position = startTile(player)
  /\ moveToken(token, 6, player).isOut
  /\ ~moveToken(token, 6, player).isCompleted

\* The accepted MAKE_MOVE has moved a token of the mover (the player at
\* mover in players) that was in base: the value was 6 and the token stands
\* on the start cell, out and not completed.
leftBaseThroughGate(mover) ==
  \A k \in 1..TOKENS_PER_PLAYER :
    ( /\ ~turnState.gameState.players[mover].tokens[k].isOut
      /\ turnState'.gameState.players[mover].tokens[k]
           # turnState.gameState.players[mover].tokens[k] )
    => /\ turnState.currentDiceValue = 6
       /\ turnState'.gameState.players[mover].tokens[k].position
            = startTile(turnState.gameState.players[mover])
       /\ turnState'.gameState.players[mover].tokens[k].isOut
       /\ ~turnState'.gameState.players[mover].tokens[k].isCompleted

\* C15: every token with isOut = false has, for the dice values 1..6, a
\* non-empty valid-move set iff the value is 6; moved with a 6 it is placed
\* on its owner's startTile with isOut = true and isCompleted = false.
C15_ExitGate ==
  [][(\A i \in 1..Len(turnState.gameState.players) :
        \A k \in 1..TOKENS_PER_PLAYER :
          ~turnState.gameState.players[i].tokens[k].isOut
            => exitGate(turnState.gameState.players[i].tokens[k],
                        turnState.gameState.players[i]))
     /\ (MoveStep
           => leftBaseThroughGate(turnState.gameState.currentPlayerIndex + 1))]_vars

\* BLUE has just moved a token out of base with a 6, and has tokens left in
\* base.
C15_LeftBaseWithSix ==
  /\ seen.last = "move"
  /\ seen.dice = 6
  /\ seen.roller = 2
  /\ \E k, j \in 1..TOKENS_PER_PLAYER :
       /\ turnState.gameState.players[3].tokens[k].isOut
       /\ turnState.gameState.players[3].tokens[k].position
            = startTile(turnState.gameState.players[3])
       /\ ~turnState.gameState.players[3].tokens[j].isOut

\* The roll would carry the token past the center: the token stands on cell
\* number h (from 0) of its owner's home lane, from where the center is
\* HOME_PATH_LENGTH - h steps ahead, and the value is larger.
overshootsCenter(token, player, steps) ==
  /\ token.isOut
  /\ ~token.isCompleted
  /\ isOnHomePath(token.position, player)
  /\ findIndex(homePath(player), token.position) + steps > HOME_PATH_LENGTH

\* The token is among possibleMoves.
inPossibleMoves(token) ==
  \E n \in 1..Len(turnState.possibleMoves) : turnState.possibleMoves[n].id = token.id

\* C16: for every token and every dice value 1..6, a roll that would carry
\* the token past the center is not a playable move: getValidMoves (in
\* either copy of token.js) returns no move for it, and when the value is
\* the one rolled the token is absent from possibleMoves.
C16_OvershootNotPlayable ==
  \A i \in 1..Len(turnState.gameState.players) :
    \A k \in 1..TOKENS_PER_PLAYER : \A d \in DiceValues :
      overshootsCenter(turnState.gameState.players[i].tokens[k],
                       turnState.gameState.players[i], d)
      => /\ getValidMoves(turnState.gameState.players[i].tokens[k], d,
                          turnState.gameState.players[i]) = << >>
         /\ getValidMovesAlt(turnState.gameState.players[i].tokens[k], d,
                             turnState.gameState.players[i]) = << >>
         /\ ( /\ turnState.phase = WAITING_FOR_MOVE
              /\ turnState.currentDiceValue = d
              /\ i = turnState.gameState.currentPlayerIndex + 1 )
            => ~inPossibleMoves(turnState.gameState.players[i].tokens[k])

\* A roll that would carry a token of the roller past the center has been
\* accepted, and that token is offered in possibleMoves.
C16_OvershootOffered ==
  /\ seen.last = "roll"
  /\ turnState.phase = WAITING_FOR_MOVE
  /\ turnState.gameState.currentPlayerIndex = seen.roller
  /\ \E k \in 1..TOKENS_PER_PLAYER :
       /\ overshootsCenter(turnState.gameState.players[seen.roller + 1].tokens[k],
                           turnState.gameState.players[seen.roller + 1],
                           turnState.currentDiceValue)
       /\ inPossibleMoves(turnState.gameState.players[seen.roller + 1].tokens[k])

\* The phase changes of the transition table.
PhaseTable ==
  { <<WAITING_FOR_ROLL, WAITING_FOR_MOVE>>, <<WAITING_FOR_ROLL, TURN_END>>,
    <<WAITING_FOR_MOVE, WAITING_FOR_ROLL>>, <<WAITING_FOR_MOVE, TURN_END>>,
    <<TURN_END, WAITING_FOR_ROLL>> }

\* The step dispatches a well-formed action.
WellFormedStep == seen'.steps = seen.steps + 1

\* C17: the initial phase is WAITING_FOR_ROLL, every change of phase is one
\* of the five of the table, and in TURN_END every well-formed action,
\* whatever its type, moves to WAITING_FOR_ROLL.
C17_PhaseTransitions ==
  /\ turnState.phase = WAITING_FOR_ROLL
  /\ [][(turnState'.phase # turnState.phase
           => <<turnState.phase, turnState'.phase>> \in PhaseTable)
        /\ ((turnState.phase = TURN_END /\ WellFormedStep)
              => turnState'.phase = WAITING_FOR_ROLL)]_vars

\* A run of five actions has taken four of the five phase changes: RED has
\* left base with a 6 and rolled again, moved without extra turn, and the
\* action in TURN_END has led back to WAITING_FOR_ROLL.
C17_BackToWaitingForRoll ==
  /\ seen.last = "end_after_move"
  /\ seen.steps = 5
  /\ turnState.phase = WAITING_FOR_ROLL
  /\ turnState.actionHistory = << >>
  /\ \E k \in 1..TOKENS_PER_PLAYER : turnState.gameState.players[1].tokens[k].isOut

\* All tokens of the player are in base.
allInBase(player) ==
  \A k \in 1..Len(player.tokens) : ~player.tokens[k].isOut

\* The step is an accepted ROLL_DICE with value 6 in WAITING_FOR_ROLL.
RollSixStep ==
  /\ turnState.phase = WAITING_FOR_ROLL
  /\ seen'.last = "roll"
  /\ seen'.steps = seen.steps + 1
  /\ seen'.dice = 6

\* The state follows a roll of 6 by the active player with all tokens in
\* base, and the step is the accepted MAKE_MOVE that answers it.
OpeningMoveStep ==
  /\ seen.last = "roll"
  /\ seen.dice = 6
  /\ seen.roller = turnState.gameState.currentPlayerIndex
  /\ allInBase(getCurrentPlayer(turnState.gameState))
  /\ MoveStep

\* The token moved by the step (a token of the player at mover in players)
\* stands on that player's start cell, out.
movedOntoStartCell(mover) ==
  \E k \in 1..TOKENS_PER_PLAYER :
    /\ turnState'.gameState.players[mover].tokens[k]
         # turnState.gameState.players[mover].tokens[k]
    /\ turnState'.gameState.players[mover].tokens[k].position
         = startTile(turnState.gameState.players[mover])
    /\ turnState'.gameState.players[mover].tokens[k].isOut
    /\ \A j \in 1..TOKENS_PER_PLAYER :
         j # k => turnState'.gameState.players[mover].tokens[j]
                    = turnState.gameState.players[mover].tokens[j]

\* C18: when the active player has all tokens in base and ROLL_DICE with
\* value 6 is dispatched in WAITING_FOR_ROLL, the phase becomes
\* WAITING_FOR_MOVE and possibleMoves holds all 4 tokens of that player;
\* after MAKE_MOVE on any of them that token is on the player's start cell
\* with isOut = true, extraTurnGranted is true, the phase is WAITING_FOR_ROLL
\* and the active player and turnCount are unchanged.
C18_OpeningWithSix ==
  [][((RollSixStep /\ allInBase(getCurrentPlayer(turnState.gameState)))
        => /\ turnState'.phase = WAITING_FOR_MOVE
           /\ turnState'.possibleMoves = getCurrentPlayer(turnState.gameState).tokens
           /\ Len(turnState'.possibleMoves) = TOKENS_PER_PLAYER
           /\ turnState'.gameState.currentPlayerIndex
                = turnState.gameState.currentPlayerIndex)
     /\ (OpeningMoveStep
        => /\ movedOntoStartCell(turnState.gameState.currentPlayerIndex + 1)
           /\ turnState'.extraTurnGranted
           /\ turnState'.phase = WAITING_FOR_ROLL
           /\ turnState'.gameState.currentPlayerIndex
                = turnState.gameState.currentPlayerIndex
           /\ turnState'.gameState.turnCount = turnState.gameState.turnCount)]_vars

\* RED has opened with a 6 and moved its third token out of base.
C18_ThirdTokenOpened ==
  /\ seen.last = "move"
  /\ seen.dice = 6
  /\ seen.steps = 2
  /\ turnState.extraTurnGranted
  /\ turnState.gameState.players[1].tokens[3].isOut
  /\ turnState.gameState.players[1].tokens[3].position
       = startTile(turnState.gameState.players[1])
  /\ ~turnState.gameState.players[1].tokens[1].isOut

\* C19: there are exactly 4 players, in the order red, green, blue, yellow,
\* each with exactly 4 tokens; the ids of the tokens are the ids given at
\* construction, in their order, and pairwise distinct over the game.
C19_TokenPopulationFixed ==
  /\ Len(turnState.gameState.players) = Len(PLAYER_ORDER)
  /\ \A i \in 1..Len(turnState.gameState.players) :
       /\ turnState.gameState.players[i].id = PLAYER_IDS[i]
       /\ turnState.gameState.players[i].color = PLAYER_ORDER[i]
       /\ Len(turnState.gameState.players[i].tokens) = TOKENS_PER_PLAYER
       /\ \A k \in 1..Len(turnState.gameState.players[i].tokens) :
            turnState.gameState.players[i].tokens[k].id = TOKEN_IDS[i][k]
  /\ \A i, j \in 1..Len(PLAYER_ORDER) : \A k, n \in 1..TOKENS_PER_PLAYER :
       TOKEN_IDS[i][k] = TOKEN_IDS[j][n] => (i = j /\ k = n)

\* Tokens have left base, moved and been captured: YELLOW has just sent
\* GREEN's token back to base while tokens of RED and YELLOW are out.
C19_AfterMovesAndCapture ==
  /\ seen.last = "move"
  /\ turnState.gameState.lastCapture # null
  /\ turnState.gameState.lastCapture # undefined
  /\ turnState.gameState.lastCapture.capturingPlayerId = PLAYER_IDS[4]
  /\ allInBase(turnState.gameState.players[2])
  /\ \E k \in 1..TOKENS_PER_PLAYER : turnState.gameState.players[1].tokens[k].isOut
  /\ \E k \in 1..TOKENS_PER_PLAYER : turnState.gameState.players[4].tokens[k].isOut

\* The actions of a run with injected dice: every ROLL_DICE carries a value
\* 1..6; MAKE_MOVE with any token id or none, END_TURN, and the malformed
\* actions.
InjectedInputs == IgnoredInputs \cup MalformedInputs

\* C20: from every reachable turn state and for every action whose ROLL_DICE
\* carries a value 1..6, processTurnAction returns the same turn state
\* whatever rollDice() would return: two copies of the engine that are equal
\* and take the same action are equal afterwards.
C20_DeterministicWithInjectedDice ==
  \A action \in InjectedInputs : \A sampled \in DiceValues :
    processTurnAction(turnState, action, sampled)
      = processTurnAction(turnState, action, DICE_MIN)

\* The engine waits for a roll after several accepted actions, so that an
\* injected ROLL_DICE is accepted and a sampled one would differ from run to
\* run.
C20_RollAwaitedAgain ==
  /\ turnState.phase = WAITING_FOR_ROLL
  /\ seen.last = "move"
  /\ seen.steps >= 4
  /\ processTurnAction(turnState, Action(ROLL_DICE, NO_DICE, ""), DICE_MIN)
       # processTurnAction(turnState, Action(ROLL_DICE, NO_DICE, ""), DICE_MAX)

\* The destination the ring algorithm gives a token of the player on ring
\* index i, the home entry being at ring index e, for a step count s: with
\* d = (e - i) mod 52 the forward distance to the entry, ring[(i+s) mod 52]
\* if s < d, the home-entry cell if s = d, homePath[s-d-1] if 0 < s-d <= 6,
\* the center if s-d = 7, and the position itself if s-d > 7.
ringDestination(i, d, s, player) ==
  IF s < d THEN SpreadAt(MAIN_TRACK, (i + s) % TOTAL_TILES)
  ELSE IF s = d THEN homeEntryTile(player)
  ELSE IF s - d <= HOME_PATH_LENGTH THEN homePath(player)[s - d]
  ELSE IF s - d = HOME_PATH_LENGTH + 1 THEN CENTER_POSITION
  ELSE MAIN_TRACK[i + 1]

\* The ring indexes that hold a cell.
RingIndexes == 0..(Len(MAIN_TRACK) - 1)

\* The forward distance on the ring from index i to the home entry of the
\* player.
distanceToEntry(i, player) ==
  (findIndex(MAIN_TRACK, homeEntryTile(player)) - i) % TOTAL_TILES

\* C22: for every ring index i that holds a cell, every player and every
\* step count 1..6, getNextPosition (in either copy of token.js) from the
\* cell of index i returns the destination of the ring algorithm.
C22_RingAlgorithm ==
  \A p \in 1..Len(turnState.gameState.players) :
    \A i \in RingIndexes : \A s \in DiceValues :
      /\ getNextPosition(MAIN_TRACK[i + 1], s, turnState.gameState.players[p])
           = ringDestination(i, distanceToEntry(i, turnState.gameState.players[p]), s,
                             turnState.gameState.players[p])
      /\ getNextPositionAlt(MAIN_TRACK[i + 1], s, turnState.gameState.players[p])
           = ringDestination(i, distanceToEntry(i, turnState.gameState.players[p]), s,
                             turnState.gameState.players[p])

\* A token stands on the cell of the last ring index, which is also the
\* cell of ring index 0.
C22_OnLastRingCell ==
  /\ MAIN_TRACK[Len(MAIN_TRACK)] = MAIN_TRACK[1]
  /\ \E i \in 1..Len(turnState.gameState.players) : \E k \in 1..TOKENS_PER_PLAYER :
       /\ turnState.gameState.players[i].tokens[k].isOut
       /\ turnState.gameState.players[i].tokens[k].position = MAIN_TRACK[Len(MAIN_TRACK)]

\* The accepted MAKE_MOVE has moved a token of the mover (the player at
\* mover in players) that stood on the mover's start cell: it stands on the
\* ring cell as many positions further as the value rolled.
movedFromStartAlongRing(mover) ==
  \A k \in 1..TOKENS_PER_PLAYER :
    ( /\ turnState.gameState.players[mover].tokens[k].isOut
      /\ onCell(turnState.gameState.players[mover].tokens[k],
                startTile(turnState.gameState.players[mover]))
      /\ turnState'.gameState.players[mover].tokens[k]
           # turnState.gameState.players[mover].tokens[k] )
    => turnState'.gameState.players[mover].tokens[k].position
         = SpreadAt(MAIN_TRACK,
                    (findIndex(MAIN_TRACK, startTile(turnState.gameState.players[mover]))
                       + turnState.currentDiceValue) % TOTAL_TILES)

\* C23: a token standing on its owner's start cell and moved with a roll s
\* in 1..6 lands on the ring cell s positions further in traversal order,
\* ring[(startIndex + s) mod 52].
C23_LeavesStartAlongRing ==
  [][MoveStep => movedFromStartAlongRing(turnState.gameState.currentPlayerIndex + 1)]_vars

\* RED has left base with a 6 and then moved that token off the start cell
\* with a smaller value.
C23_MovedOffStartCell ==
  /\ seen.last = "move"
  /\ seen.steps = 4
  /\ seen.dice # 6
  /\ \E k \in 1..TOKENS_PER_PLAYER :
       /\ turnState.gameState.players[1].tokens[k].isOut
       /\ ~onCell(turnState.gameState.players[1].tokens[k],
                  startTile(turnState.gameState.players[1]))

\* The move of a token that stands on cell number h (from 0) of its owner's
\* home lane, with a step count s: onto homePath[h+s] if h+s < 6, onto the
\* center and completed if h+s = 6, and no move if h+s > 6.
homeLaneAdvance(token, h, s, player) ==
  IF h + s < HOME_PATH_LENGTH
  THEN /\ moveToken(token, s, player).position = homePath(player)[h + s + 1]
       /\ ~moveToken(token, s, player).isCompleted
  ELSE IF h + s = HOME_PATH_LENGTH
       THEN /\ moveToken(token, s, player).position = CENTER_POSITION
            /\ moveToken(token, s, player).isCompleted
       ELSE /\ moveToken(token, s, player).position = token.position
            /\ getValidMoves(token, s, player) = << >>

\* C24: for every token that is out, not completed and on its owner's
\* homePath at index h, and every roll s in 1..6, the move lands on
\* homePath[h+s] if h+s < 6, on the center with isCompleted = true if
\* h+s = 6, and is no legal move (position unchanged) if h+s > 6.
C24_HomeLaneAdvance ==
  \A i \in 1..Len(turnState.gameState.players) :
    \A k \in 1..TOKENS_PER_PLAYER : \A s \in DiceValues :
      ( /\ turnState.gameState.players[i].tokens[k].isOut
        /\ ~turnState.gameState.players[i].tokens[k].isCompleted
        /\ isOnHomePath(turnState.gameState.players[i].tokens[k].position,
                        turnState.gameState.players[i]) )
      => homeLaneAdvance(turnState.gameState.players[i].tokens[k],
                         findIndex(homePath(turnState.gameState.players[i]),
                                   turnState.gameState.players[i].tokens[k].position),
                         s, turnState.gameState.players[i])

\* A token of the roller stands on its home lane exactly as many steps from
\* the center as the value just rolled.
C24_ExactRollToCenter ==
  /\ seen.last = "roll"
  /\ turnState.phase = WAITING_FOR_MOVE
  /\ turnState.gameState.currentPlayerIndex = seen.roller
  /\ \E k \in 1..TOKENS_PER_PLAYER :
       /\ turnState.gameState.players[seen.roller + 1].tokens[k].isOut
       /\ isOnHomePath(turnState.gameState.players[seen.roller + 1].tokens[k].position,
                       turnState.gameState.players[seen.roller + 1])
       /\ findIndex(homePath(turnState.gameState.players[seen.roller + 1]),
                    turnState.gameState.players[seen.roller + 1].tokens[k].position)
            + seen.dice = HOME_PATH_LENGTH

\* C25: in every reachable state, every token with isOut = true has
\* isSafe = true iff it is completed or its position is one of SAFE_TILES;
\* a token on a non-safe cell never carries isSafe = true.
C25_SafeFlagAccurate ==
  \A i \in 1..Len(turnState.gameState.players) :
    \A k \in 1..TOKENS_PER_PLAYER :
      turnState.gameState.players[i].tokens[k].isOut
      => ( turnState.gameState.players[i].tokens[k].isSafe
           <=> ( \/ turnState.gameState.players[i].tokens[k].isCompleted
                 \/ isOnSafeTile(turnState.gameState.players[i].tokens[k].position) ) )

\* A move has just put a token on a cell of its owner's home lane that is
\* not one of SAFE_TILES.
C25_MovedOntoUnsafeLaneCell ==
  /\ seen.last = "move"
  /\ \E k \in 1..TOKENS_PER_PLAYER :
       /\ turnState.gameState.players[seen.roller + 1].tokens[k].isOut
       /\ ~turnState.gameState.players[seen.roller + 1].tokens[k].isCompleted
       /\ ~isOnSafeTile(turnState.gameState.players[seen.roller + 1].tokens[k].position)
       /\ isOnHomePath(turnState.gameState.players[seen.roller + 1].tokens[k].position,
                       turnState.gameState.players[seen.roller + 1])

\* C26: for every reachable token that is out and not completed and every
\* dice value 1..6, getValidMoves returns no move only if the roll would
\* carry the token past the center; a token on its start cell, or on a ring
\* cell more than 6 steps before its home entry, has a move for every value.
C26_WithheldOnlyForOvershoot ==
  \A i \in 1..Len(turnState.gameState.players) :
    \A k \in 1..TOKENS_PER_PLAYER : \A s \in DiceValues :
      ( /\ turnState.gameState.players[i].tokens[k].isOut
        /\ ~turnState.gameState.players[i].tokens[k].isCompleted
        /\ getValidMoves(turnState.gameState.players[i].tokens[k], s,
                         turnState.gameState.players[i]) = << >> )
      => overshootsCenter(turnState.gameState.players[i].tokens[k],
                          turnState.gameState.players[i], s)

\* The player who has just rolled a 1 has a token standing on its start cell.
C26_RolledOneOnStartCell ==
  /\ seen.last = "roll"
  /\ seen.dice = 1
  /\ \E k \in 1..TOKENS_PER_PLAYER :
       /\ turnState.gameState.players[seen.roller + 1].tokens[k].isOut
       /\ ~turnState.gameState.players[seen.roller + 1].tokens[k].isCompleted
       /\ turnState.gameState.players[seen.roller + 1].tokens[k].position
            = startTile(turnState.gameState.players[seen.roller + 1])

\* The token k of player i is completed and stays as it is in the step: still
\* completed, still on the center, and not among the new possibleMoves.
staysCompleted(i, k) ==
  /\ turnState.gameState.players[i].tokens[k].position = CENTER_POSITION
  /\ turnState'.gameState.players[i].tokens[k].isCompleted
  /\ turnState'.gameState.players[i].tokens[k].isOut
  /\ turnState'.gameState.players[i].tokens[k].position = CENTER_POSITION
  /\ \A n \in 1..Len(turnState'.possibleMoves) :
       turnState'.possibleMoves[n].id # turnState.gameState.players[i].tokens[k].id

\* C27: once a token has isCompleted = true, in every later state it still
\* has isCompleted = true with the same position (the center), it never
\* appears in possibleMoves and no opponent move resets it to base.
C27_CompletedFrozen ==
  [][\A i \in 1..Len(turnState.gameState.players) :
       \A k \in 1..TOKENS_PER_PLAYER :
         turnState.gameState.players[i].tokens[k].isCompleted
         => staysCompleted(i, k)]_vars

\* A player has just moved a token onto the center where a completed token
\* of another player stands.
C27_OpponentReachedCenter ==
  /\ seen.last = "move"
  /\ \E k \in 1..TOKENS_PER_PLAYER :
       turnState.gameState.players[seen.roller + 1].tokens[k].isCompleted
  /\ \E i \in 1..Len(turnState.gameState.players) :
       /\ i # seen.roller + 1
       /\ \E k \in 1..TOKENS_PER_PLAYER :
            /\ turnState.gameState.players[i].tokens[k].isCompleted
            /\ turnState.gameState.players[i].tokens[k].position = CENTER_POSITION

\* The step has changed nothing but the token k of the mover (the player at
\* mover in players) and opponent tokens on the cell where that token now
\* stands, which are back in base.
moveFrame(mover, k) ==
  /\ turnState'.gameState.players[mover].tokens[k].position # null
  /\ \A j \in 1..TOKENS_PER_PLAYER :
       j # k => turnState'.gameState.players[mover].tokens[j]
                  = turnState.gameState.players[mover].tokens[j]
  /\ \A i \in 1..Len(turnState.gameState.players) : \A j \in 1..TOKENS_PER_PLAYER :
       i # mover =>
         \/ turnState'.gameState.players[i].tokens[j]
              = turnState.gameState.players[i].tokens[j]
         \/ /\ onCell(turnState.gameState.players[i].tokens[j],
                       turnState'.gameState.players[mover].tokens[k].position)
            /\ turnState'.gameState.players[i].tokens[j]
                 = resetToBase(turnState.gameState.players[i].tokens[j])

\* C28: an accepted MAKE_MOVE changes the position and flags of the selected
\* token and resets only opponent tokens that stood on the landing cell;
\* every other token of the mover (also one sharing the landing cell) and
\* every opponent token not on the landing cell keeps its position, isOut,
\* isSafe and isCompleted.
C28_MoveFrame ==
  [][MoveStep =>
       \E k \in 1..TOKENS_PER_PLAYER :
         moveFrame(turnState.gameState.currentPlayerIndex + 1, k)]_vars

\* YELLOW has just moved its only token that is out, with a value other than
\* 6, onto the cell recorded as the capture cell: the RED tokens are in base,
\* and a GREEN token stands out on another cell.
C28_CaptureBesideBystanders ==
  /\ seen.last = "move"
  /\ seen.roller = 3
  /\ seen.dice # 6
  /\ turnState.gameState.currentPlayerIndex = 3
  /\ turnState.gameState.lastCapture # null
  /\ turnState.gameState.lastCapture # undefined
  /\ turnState.gameState.lastCapture.capturingPlayerId = PLAYER_IDS[4]
  /\ \E k \in 1..TOKENS_PER_PLAYER :
       /\ onCell(turnState.gameState.players[4].tokens[k],
                 turnState.gameState.lastCapture.capturePosition)
       /\ \A j \in 1..TOKENS_PER_PLAYER :
            j # k => ~turnState.gameState.players[4].tokens[j].isOut
  /\ \A k \in 1..TOKENS_PER_PLAYER :
       ~turnState.gameState.players[1].tokens[k].isOut
  /\ \E k \in 1..TOKENS_PER_PLAYER :
       /\ turnState.gameState.players[2].tokens[k].isOut
       /\ ~onCell(turnState.gameState.players[2].tokens[k],
                  turnState.gameState.lastCapture.capturePosition)

\* The step is an accepted ROLL_DICE in WAITING_FOR_ROLL.
RollStep ==
  /\ turnState.phase = WAITING_FOR_ROLL
  /\ seen'.last = "roll"
  /\ seen'.steps = seen.steps + 1

\* C29: an accepted ROLL_DICE changes no token's position or flags and
\* changes neither currentPlayerIndex nor turnCount: the active player in
\* gameState is the same before and after the roll, whether or not the roll
\* has a legal move.
C29_RollFrame ==
  [][RollStep =>
       /\ turnState'.gameState.players = turnState.gameState.players
       /\ turnState'.gameState.currentPlayerIndex
            = turnState.gameState.currentPlayerIndex
       /\ turnState'.gameState.turnCount = turnState.gameState.turnCount]_vars

\* A player with all tokens in base has just rolled a value other than 6 and
\* has no legal move.
C29_RolledWithoutMove ==
  /\ seen.last = "roll"
  /\ seen.dice # 6
  /\ rollersMovableTokens = << >>
  /\ allInBase(turnState.gameState.players[seen.roller + 1])

\* C30: for every accepted MAKE_MOVE, gameState.currentPlayerIndex is left
\* unchanged by the move iff extraTurnGranted is true afterwards; a capture
\* recorded in lastCapture by an earlier move of the same player never makes
\* a later move without six, capture or completion keep the turn.
C30_ExtraTurnDecisionsAgree ==
  [][MoveStep =>
       ( (turnState'.gameState.currentPlayerIndex
            = turnState.gameState.currentPlayerIndex)
         <=> turnState'.extraTurnGranted )]_vars

\* A player whose earlier capture is still recorded in lastCapture has just
\* moved another token with a value other than 6, and the move was judged
\* to give no extra turn.
C30_MovedAfterOwnCapture ==
  /\ seen.last = "move"
  /\ seen.dice # 6
  /\ turnState.phase = TURN_END
  /\ ~turnState.extraTurnGranted
  /\ turnState.gameState.lastCapture # null
  /\ turnState.gameState.lastCapture # undefined
  /\ turnState.gameState.lastCapture.capturingPlayerId
       = turnState.gameState.players[seen.roller + 1].id
  /\ \E k \in 1..TOKENS_PER_PLAYER :
       /\ turnState.gameState.players[seen.roller + 1].tokens[k].isOut
       /\ ~onCell(turnState.gameState.players[seen.roller + 1].tokens[k],
                  turnState.gameState.lastCapture.capturePosition)

\* The player with JavaScript index p is the active player and the state
\* waits for the roll.
awaitsRoll(p) ==
  /\ turnState.phase = WAITING_FOR_ROLL
  /\ turnState.gameState.currentPlayerIndex = p

\* C31: along every run in which actions keep being dispatched and no extra
\* turn is ever granted, each of the four players is again and again the
\* active player in phase WAITING_FOR_ROLL: no seat is skipped for ever.
C31_EveryPlayerRolls ==
  [](~turnState.extraTurnGranted)
    => \A p \in 0..(Len(PLAYER_ORDER) - 1) : []<>awaitsRoll(p)

\* No token has left base, RED's turn has ended without extra turn, and the
\* state waits for the next roll.
C31_SecondTurnAwaitsRoll ==
  /\ seen.last = "end"
  /\ seen.roller = 0
  /\ turnState.phase = WAITING_FOR_ROLL
  /\ ~turnState.extraTurnGranted
  /\ turnState.gameState.turnCount = 2
  /\ \A i \in 1..Len(turnState.gameState.players) :
       allInBase(turnState.gameState.players[i])

\* The token at place n of possibleMoves is a token of the active player, has
\* a valid move with currentDiceValue, and handleMove on it changes its
\* position.
playableMove(n) ==
  \E k \in 1..TOKENS_PER_PLAYER :
    /\ getCurrentPlayer(turnState.gameState).tokens[k] = turnState.possibleMoves[n]
    /\ getValidMoves(turnState.possibleMoves[n], turnState.currentDiceValue,
                     getCurrentPlayer(turnState.gameState)) # << >>
    /\ handleMove(turnState.gameState, turnState.possibleMoves[n].id,
                  turnState.currentDiceValue)
           .players[turnState.gameState.currentPlayerIndex + 1].tokens[k].position
         # turnState.possibleMoves[n].position

\* C32: in every reachable state, phase = WAITING_FOR_ROLL implies that
\* currentDiceValue is null and possibleMoves is empty; phase =
\* WAITING_FOR_MOVE implies that currentDiceValue is set, possibleMoves is
\* non-empty and every token in it belongs to the active player of gameState
\* and has a valid move with currentDiceValue, so that MAKE_MOVE on it
\* changes its position.
C32_ScratchStatePerPhase ==
  /\ turnState.phase = WAITING_FOR_ROLL
       => /\ turnState.currentDiceValue = NO_DICE
          /\ turnState.possibleMoves = << >>
  /\ turnState.phase = WAITING_FOR_MOVE
       => /\ turnState.currentDiceValue # NO_DICE
          /\ turnState.possibleMoves # << >>
          /\ \A n \in 1..Len(turnState.possibleMoves) : playableMove(n)

\* The roller had no legal move, and the state waits for a move of the next
\* player with the value rolled.
C32_MoveAwaitedFromNextPlayer ==
  /\ seen.last = "roll"
  /\ turnState.phase = WAITING_FOR_MOVE
  /\ turnState.gameState.currentPlayerIndex # seen.roller
  /\ Len(turnState.possibleMoves) > 0

\* currentPlayerIndex is one of the four seats and is the turn count modulo
\* four (primed: in the state after the step).
seatFollowsTurnCount ==
  /\ turnState.gameState.currentPlayerIndex \in 0..(Len(PLAYER_ORDER) - 1)
  /\ turnState.gameState.currentPlayerIndex
       = turnState.gameState.turnCount % Len(PLAYER_ORDER)

\* The step leaves currentPlayerIndex and turnCount alone, or passes the
\* turn to the next seat and counts one turn more.
turnPassedOnceOrNot ==
  \/ /\ turnState'.gameState.currentPlayerIndex = turnState.gameState.currentPlayerIndex
     /\ turnState'.gameState.turnCount = turnState.gameState.turnCount
  \/ /\ turnState'.gameState.currentPlayerIndex
          = (turnState.gameState.currentPlayerIndex + 1) % Len(PLAYER_ORDER)
     /\ turnState'.gameState.turnCount = turnState.gameState.turnCount + 1

\* C33: currentPlayerIndex is always in 0..3, turnCount never decreases, and
\* the two change only together: every step that changes currentPlayerIndex
\* sets it to (old + 1) mod 4 and increases turnCount by exactly 1, so
\* currentPlayerIndex = turnCount mod 4 in every reachable state.
C33_SeatAndTurnCount ==
  /\ seatFollowsTurnCount
  /\ [][turnPassedOnceOrNot /\ seatFollowsTurnCount']_vars

\* The turn has been passed four times: RED is the active player again.
C33_BackToFirstSeat ==
  /\ turnState.gameState.turnCount = Len(PLAYER_ORDER)
  /\ turnState.gameState.currentPlayerIndex = 0

\* currentDiceValue is null or a value of the die (primed: in the state
\* after the step).
diceValueInPlayLegal ==
  \/ turnState.currentDiceValue = NO_DICE
  \/ turnState.currentDiceValue \in DiceValues

\* The step has taken no token of the mover (the player at mover in players)
\* from a cell of the ring onto the center.
noneFromRingToCenter(mover) ==
  \A k \in 1..TOKENS_PER_PLAYER :
    ( /\ turnState.gameState.players[mover].tokens[k].position # null
      /\ somePosition(MAIN_TRACK, turnState.gameState.players[mover].tokens[k].position) )
    => turnState'.gameState.players[mover].tokens[k].position # CENTER_POSITION

\* C34: in every reachable state currentDiceValue is null or an integer in
\* 1..6, whatever value a ROLL_DICE action carries; a ROLL_DICE whose value
\* lies outside 1..6 never moves a token by that amount and never lets a
\* token reach the center in one step from the ring.
C34_DiceValueLegal ==
  /\ diceValueInPlayLegal
  /\ [][/\ diceValueInPlayLegal'
        /\ (MoveStep => turnState.currentDiceValue \in DiceValues)
        /\ (MoveStep
              => noneFromRingToCenter(turnState.gameState.currentPlayerIndex + 1))]_vars

\* A token has just been moved with a value above DICE_MAX and stands on the
\* center, completed.
C34_MovedWithSeven ==
  /\ seen.last = "move"
  /\ seen.dice > DICE_MAX
  /\ \E i \in 1..Len(turnState.gameState.players) : \E k \in 1..TOKENS_PER_PLAYER :
       /\ turnState.gameState.players[i].tokens[k].isCompleted
       /\ turnState.gameState.players[i].tokens[k].position = CENTER_POSITION

\* processTurnAction answers the action with another phase or another game
\* state.
respondsTo(action) ==
  \/ processTurnAction(turnState, action, DICE_MIN).phase # turnState.phase
  \/ processTurnAction(turnState, action, DICE_MIN).gameState # turnState.gameState

\* C35: for every reachable turn state and every well-formed action,
\* isActionAllowed returns true iff processTurnAction changes the phase or
\* the game state in response to that action; in TURN_END the two agree on
\* the action types that trigger the hand-off.
C35_AllowedIffAnswered ==
  \A action \in IgnoredInputs :
    isActionAllowed(turnState, action) <=> respondsTo(action)

\* A roll has left the roller without move: in TURN_END isActionAllowed
\* accepts END_TURN.
C35_TurnEndAwaitsAction ==
  /\ seen.last = "roll"
  /\ turnState.phase = TURN_END
  /\ isActionAllowed(turnState, Action(END_TURN, NO_DICE, ""))
  /\ respondsTo(Action(END_TURN, NO_DICE, ""))

\* C36: in every reachable state with phase = TURN_END extraTurnGranted is
\* false, so that the action dispatched in TURN_END never keeps the same
\* player: it passes the turn and resets the action history to empty.
C36_NoExtraTurnInTurnEnd ==
  /\ (turnState.phase = TURN_END => ~turnState.extraTurnGranted)
  /\ [][/\ (turnState'.phase = TURN_END => ~turnState'.extraTurnGranted)
        /\ ((turnState.phase = TURN_END /\ WellFormedStep)
              => /\ turnState'.actionHistory = << >>
                 /\ turnState'.gameState = updateTurn(turnState.gameState))]_vars

\* A move without extra turn has led to TURN_END, and the action dispatched
\* there has emptied the action history.
C36_HistoryResetAfterMove ==
  /\ seen.last = "end_after_move"
  /\ turnState.phase = WAITING_FOR_ROLL
  /\ turnState.actionHistory = << >>
  /\ ~turnState.extraTurnGranted

====
